---- MODULE Spec2Model ----
(***************************************************************************)
(* Annotation persistence and text-anchor reconstruction of the PDF        *)
(* preview extension: the webview script (view) captures selections as     *)
(* anchors and re-anchors stored ones, the extension host (PdfPreview)     *)
(* keeps the persisted lists in globalState.  Messages between the two     *)
(* travel through FIFO channels; timers of the view are FIFO per delay.    *)
(*                                                                         *)
(* Not modelled: timestamps, textBefore/textAfter (captured, never read),  *)
(* colors of kinds whose color is fixed by the host command, and the       *)
(* notification texts the host shows.                                      *)
(***************************************************************************)
EXTENDS Integers, Sequences, FiniteSets, TLC

(***************************************************************************)
(* Bounds of the model                                                     *)
(***************************************************************************)
MaxAnchors == 2      \* longest view list a capture may still extend
MaxInFlight == 1     \* messages in flight while the user issues a command
MaxJobs == 2         \* extractions started in one run
MaxNav == 2          \* page changes and page commands on their way
MaxNodes == 6        \* text nodes of a page the user still selects in
LongLen == 52        \* length of the long text chunk on page 2
MaxPath == 2         \* points of a freehand path

(***************************************************************************)
(* Program constants                                                       *)
(***************************************************************************)
SummaryLen == 50
\* addToHistory: the longest page history
HistoryLimit == 50
\* loads of the document when a preview opens: open(path), then load(doc)
LoadsOnOpen == 2

\* resource.toString() of two documents; the second is opened only where
\* two documents matter
DocA == << "a", ".", "p", "d", "f" >>
DocB == << "b", ".", "p", "d", "f" >>
Docs == {DocA}
AllDocs == {DocA, DocB}
Ellipsis == <<".", ".", ".">>

(***************************************************************************)
(* Strings are sequences of one-character strings.                         *)
(***************************************************************************)
Sub(s, a, b) == SubSeq(s, a + 1, b)          \* s.substring(a, b), 0-based

\* nothing but whitespace, or nothing at all
Blank(text) == \A i \in 1..Len(text) : text[i] = " "

\* String.prototype.trim
RECURSIVE TrimLeft(_)
TrimLeft(s) == IF s # <<>> /\ Head(s) = " " THEN TrimLeft(Tail(s)) ELSE s
RECURSIVE TrimRight(_)
TrimRight(s) ==
  IF s # <<>> /\ s[Len(s)] = " " THEN TrimRight(SubSeq(s, 1, Len(s) - 1)) ELSE s
\* a trim that leaves the string as it is
TrimNothing(s) == s

Trim(s) == TrimRight(TrimLeft(s))

\* String.prototype.indexOf: first 0-based position of t in s, -1 if none
IndexOf(s, t) ==
  LET hits == {i \in 0..(Len(s) - Len(t)) : Sub(s, i, i + Len(t)) = t}
  IN IF hits = {} THEN 0 - 1 ELSE CHOOSE i \in hits : \A j \in hits : i <= j

\* a summary line that is cut without the ellipsis
TruncateBare(s) == Sub(s, 0, IF Len(s) < SummaryLen THEN Len(s) ELSE SummaryLen)

\* h.text.substring(0, 50) + (h.text.length > 50 ? '...' : '')
Truncate(s) ==
  Sub(s, 0, IF Len(s) < SummaryLen THEN Len(s) ELSE SummaryLen)
    \o (IF Len(s) > SummaryLen THEN Ellipsis ELSE <<>>)

RECURSIVE Concat(_)
Concat(ss) == IF ss = <<>> THEN <<>> ELSE Head(ss) \o Concat(Tail(ss))

\* Array.prototype.splice(index, 1)
Splice(s, index) == SubSeq(s, 1, index) \o SubSeq(s, index + 2, Len(s))

(***************************************************************************)
(* The document: text chunks of each page as the rendering library lays    *)
(* them out, one <span> with one text node per chunk.                      *)
(***************************************************************************)
LongText == [i \in 1..LongLen |-> "x"]
PageText ==
  <<  << <<"t", "h", "e", " ", "a">>, <<"t", "h", "e">> >>,
      << LongText >>  >>
\* the pages of the document as first opened
NumPages == Len(PageText)
Pages == 1..NumPages

(***************************************************************************)
(* The text layer of a page is the sequence of its text nodes in document  *)
(* order; path lists the elements above a text node below the text layer,  *)
(* outermost first.                                                        *)
(***************************************************************************)
El(i, c) == [id |-> i, cls |-> c]
Leaf(t, p) == [txt |-> t, path |-> p]
PristinePage(p) ==
  [k \in 1..Len(PageText[p]) |->
     Leaf(PageText[p][k], <<El(0 - (10 * p + k), "chunk")>>)]
NoDom == [p \in Pages |-> <<>>]

TextContent(leaves) == Concat([k \in 1..Len(leaves) |-> leaves[k].txt])

ElementsIn(leaves) ==
  UNION {{leaves[k].path[m] : m \in 1..Len(leaves[k].path)} : k \in 1..Len(leaves)}
IdsOfLeaves(leaves) ==
  UNION {{leaves[k].path[m].id : m \in 1..Len(leaves[k].path)} : k \in 1..Len(leaves)}

CommonLen(p, q) ==
  LET same == {n \in 0..Len(p) : n <= Len(q) /\ SubSeq(p, 1, n) = SubSeq(q, 1, n)}
  IN CHOOSE n \in same : \A m \in same : m <= n

\* A selection made by the user: the characters [from, to) of the page text.
\* Its start is in the text node holding character from, its end in the one
\* holding character to - 1.
Offset(leaves, k) == Len(TextContent(SubSeq(leaves, 1, k - 1)))
LeafAt(leaves, c) ==
  CHOOSE k \in 1..Len(leaves) :
    Offset(leaves, k) <= c /\ c < Offset(leaves, k) + Len(leaves[k].txt)
Range(leaves, from, to) ==
  LET sn == LeafAt(leaves, from)
      en == LeafAt(leaves, to - 1)
  IN [sn |-> sn, so |-> from - Offset(leaves, sn),
      en |-> en, eo |-> to - Offset(leaves, en)]

\* Selection.toString()
RangeText(leaves, r) ==
  IF r.sn = r.en THEN Sub(leaves[r.sn].txt, r.so, r.eo)
  ELSE Sub(leaves[r.sn].txt, r.so, Len(leaves[r.sn].txt))
       \o TextContent(SubSeq(leaves, r.sn + 1, r.en - 1))
       \o Sub(leaves[r.en].txt, 0, r.eo)

\* Range.surroundContents throws when the range partially contains an
\* element, that is when its two ends do not have the same parent.
CanSurround(leaves, r) == leaves[r.sn].path = leaves[r.en].path

InsertAt(s, n, e) == SubSeq(s, 1, n) \o <<e>> \o SubSeq(s, n + 1, Len(s))

\* Range.surroundContents(span) for a range whose ends have the same parent
SurroundContents(leaves, r, span) ==
  LET par == leaves[r.sn].path
      st == leaves[r.sn].txt
      et == leaves[r.en].txt
      inner ==
        IF r.sn = r.en THEN << Leaf(Sub(st, r.so, r.eo), par \o <<span>>) >>
        ELSE << Leaf(Sub(st, r.so, Len(st)), par \o <<span>>) >>
             \o [k \in 1..(r.en - r.sn - 1) |->
                   Leaf(leaves[r.sn + k].txt,
                        InsertAt(leaves[r.sn + k].path, Len(par), span))]
             \o << Leaf(Sub(et, 0, r.eo), par \o <<span>>) >>
  IN SubSeq(leaves, 1, r.sn - 1)
     \o << Leaf(Sub(st, 0, r.so), par) >>
     \o inner
     \o << Leaf(Sub(et, r.eo, Len(et)), par) >>
     \o SubSeq(leaves, r.en + 1, Len(leaves))

\* range.extractContents(); span.appendChild(contents); range.insertNode(span)
\* for a range whose ends have different parents: the partially contained
\* elements are cloned (ids taken from fresh), everything else is moved.
ExtractInsert(leaves, r, span, fresh) ==
  LET ps == leaves[r.sn].path
      pe == leaves[r.en].path
      n == CommonLen(ps, pe)
      cloneS == [m \in 1..(Len(ps) - n) |-> El(fresh[m], ps[n + m].cls)]
      cloneE == [m \in 1..(Len(pe) - n) |->
                   El(fresh[Len(ps) - n + m], pe[n + m].cls)]
      Moved(p) ==
        [m \in 1..(Len(p) - n) |->
           IF n + m <= Len(ps) /\ SubSeq(p, 1, n + m) = SubSeq(ps, 1, n + m)
             THEN cloneS[m]
           ELSE IF n + m <= Len(pe) /\ SubSeq(p, 1, n + m) = SubSeq(pe, 1, n + m)
             THEN cloneE[m]
           ELSE p[n + m]]
      Into(p) == SubSeq(p, 1, n) \o <<span>> \o Moved(p)
      st == leaves[r.sn].txt
      et == leaves[r.en].txt
  IN SubSeq(leaves, 1, r.sn - 1)
     \o << Leaf(Sub(st, 0, r.so), ps), Leaf(Sub(st, r.so, Len(st)), Into(ps)) >>
     \o [k \in 1..(r.en - r.sn - 1) |->
           Leaf(leaves[r.sn + k].txt, Into(leaves[r.sn + k].path))]
     \o << Leaf(Sub(et, 0, r.eo), Into(pe)), Leaf(Sub(et, r.eo, Len(et)), pe) >>
     \o SubSeq(leaves, r.en + 1, Len(leaves))

\* parentNode.removeChild(node): the leaves under the element go with it
RemoveChild(d, id) ==
  [p \in Pages |->
     SelectSeq(d[p], LAMBDA l : \A m \in 1..Len(l.path) : l.path[m].id # id)]

\* catch (err2): the fallback has thrown. Either range.extractContents()
\* threw and the page is as it was, or range.insertNode(span) threw and the
\* extracted contents are in the span, which is in no document
FallbackFailures(d, page, r, span, fresh) ==
  { d,
    RemoveChild([d EXCEPT ![page] = ExtractInsert(d[page], r, span, fresh)],
                span.id) }

\* while (span.firstChild) parent.insertBefore(span.firstChild, span);
\* parent.removeChild(span)
Unwrap(leaves, id) ==
  [k \in 1..Len(leaves) |->
     Leaf(leaves[k].txt, SelectSeq(leaves[k].path, LAMBDA e : e.id # id))]

\* span.textContent
SpanText(leaves, id) ==
  TextContent(SelectSeq(leaves,
    LAMBDA l : \E m \in 1..Len(l.path) : l.path[m].id = id))

(***************************************************************************)
(* State                                                                   *)
(***************************************************************************)
VARIABLES
  session,                \* "closed" or "open": whether a preview exists
  resource,               \* the document of the preview (PdfPreview.resource)
  filePages,              \* page count of the file on disk
  globalState,            \* context.globalState: storage key -> list
  savedHighlights,        \* PdfPreview._savedHighlights
  savedAnnotations,       \* PdfPreview._savedAnnotations
  savedComments,          \* PdfPreview._savedComments
  savedStickyNotes,       \* PdfPreview._savedStickyNotes
  savedDrawings,          \* PdfPreview._savedDrawings
  pagesCount,             \* PDFViewerApplication.pagesCount
  currentPageNumber,      \* PDFViewerApplication.pdfViewer.currentPageNumber
  dom,                    \* page -> text nodes of its text layer (<<>>: none)
  noteEls,                \* sticky-note elements attached to page containers
  selection,              \* window.getSelection(), as made by the user
  highlights,             \* view list of highlights
  currentHighlightIndex,
  annotations,            \* view list of underline/strikethrough/squiggly
  comments,               \* view list of comments
  stickyNotes,            \* view list of sticky notes
  drawingAnnotations,     \* view list of drawings
  dragging,               \* sticky-note element being dragged, 0 if none
  isDrawingMode,
  drawingType,
  drawingCanvas,          \* the drawing canvas, None before it is created
  isDrawing,              \* setupDrawingEvents: a gesture is under way
  startPoint,             \* setupDrawingEvents: startX, startY
  tempShape,              \* setupDrawingEvents: the shape being drawn
  currentDrawingPath,
  painted,                \* the shapes painted on the drawing canvas
  loadEvents,             \* 'documentloaded' events not yet dispatched
  restoreTimers,          \* pending setTimeout(..., 1000) of restoreHighlights
  singleTimers,           \* pending setTimeout(..., 500), one per anchor
  toView,                 \* messages host -> view, in order
  toHost,                 \* messages view -> host, in order
  dialog,                 \* the quick pick or input box the host has open
  modal,                  \* the modal confirmation the host has open
  currentHighlightColor,  \* PdfPreview._currentHighlightColor
  extractCancelled,       \* PdfPreview._extractCancelled
  extractProgressCallback, \* the extraction whose callback the host holds
  progress,               \* the extractions whose progress notice is open
  viewExtractCancelled,   \* extractCancelled of the script
  extractions,            \* the calls of extractAllText / extractRangeText
                          \* of the script that are waiting for a page
  jobs,                   \* the extractions started so far
  cancelled,              \* the extractions the user has cancelled
  pageHistory,            \* PdfPreview._pageHistory
  historyIndex,           \* PdfPreview._historyIndex
  isNavigating,           \* PdfPreview._isNavigating
  peer                    \* a second preview of the same document: whether
                          \* it is open, and its _savedHighlights

hostVars ==
  <<savedHighlights, savedAnnotations, savedComments, savedStickyNotes,
    savedDrawings>>
listVars == <<highlights, currentHighlightIndex, annotations, comments,
              stickyNotes, drawingAnnotations>>
docVars == <<pagesCount, currentPageNumber, loadEvents>>
domVars == <<dom, noteEls, selection>>
timerVars == <<restoreTimers, singleTimers>>
drawVars == <<isDrawingMode, drawingType, drawingCanvas, isDrawing, startPoint,
              tempShape, currentDrawingPath, painted>>
dialogVars == <<dialog, modal, currentHighlightColor>>
\* what the host has asked the user and not yet got an answer to
extractVars ==
  <<extractCancelled, extractProgressCallback, progress, viewExtractCancelled,
    extractions, jobs, cancelled>>
\* the page history of the host
navVars == <<pageHistory, historyIndex, isNavigating>>
askVars == <<dialogVars, extractVars, navVars, peer>>
\* what the user has under way: gestures and dialogs
toolVars == <<extractVars, dragging, drawVars, askVars>>
vars ==
  <<session, resource, filePages, globalState, hostVars, docVars, domVars,
    listVars, toolVars, timerVars, toView, toHost>>

Msg(t, a) == [type |-> t, arg |-> a]
None == <<>>
Origin == <<0, 0>>
\* drawingCanvas = null; page: the page whose container the canvas is in
NoCanvas == [page |-> 0, attached |-> FALSE, pointerEvents |-> FALSE]
\* tempShape = null
Geometry(type, x, y, width, height, path) ==
  [type |-> type, x |-> x, y |-> y, width |-> width, height |-> height,
   path |-> path]
NoShape == Geometry("none", 0, 0, 0, 0, <<>>)
\* a quick pick or input box of kind k opened with arg, and none
Dialog(k, a) == [kind |-> k, arg |-> a]
NoDialog == Dialog("none", <<>>)
\* private _currentHighlightColor = '#FFFF00'
Yellow == << "#", "F", "F", "F", "F", "0", "0" >>

(***************************************************************************)
(* Storage keys                                                            *)
(***************************************************************************)
\* the keys are strings: a prefix followed by resource.toString()
getHighlightsKey(doc) ==
  << "p", "d", "f", "-", "h", "i", "g", "h", "l", "i", "g", "h", "t", "s",
     "-" >> \o doc
highlightsStorageKey(doc) ==
  << "p", "d", "f", ".", "h", "i", "g", "h", "l", "i", "g", "h", "t", "s",
     "." >> \o doc
\* a key that leaves the document out
annotationsKeyShared(doc) ==
  << "p", "d", "f", ".", "a", "n", "n", "o", "t", "a", "t", "i", "o", "n",
     "s", "." >>
annotationsKey(doc) ==
  << "p", "d", "f", ".", "a", "n", "n", "o", "t", "a", "t", "i", "o", "n",
     "s", "." >> \o doc
commentsKey(doc) ==
  << "p", "d", "f", ".", "c", "o", "m", "m", "e", "n", "t", "s", "." >> \o doc
stickyNotesKey(doc) ==
  << "p", "d", "f", ".", "s", "t", "i", "c", "k", "y", "N", "o", "t", "e",
     "s", "." >> \o doc
drawingsKey(doc) ==
  << "p", "d", "f", ".", "d", "r", "a", "w", "i", "n", "g", "s", "." >> \o doc
\* the keys of a document, one per kind and two for the highlights
KeysOf(doc) ==
  {getHighlightsKey(doc), highlightsStorageKey(doc), annotationsKey(doc),
   commentsKey(doc), stickyNotesKey(doc), drawingsKey(doc)}
Keys == UNION {KeysOf(doc) : doc \in AllDocs}

\* globalState.update(key, list)
Update(gs, key, list) == [gs EXCEPT ![key] = list]

\* saveAllAnnotations: the five save calls in order
saveAllAnnotations(gs, doc, hl, an, co, sn, dr) ==
  Update(Update(Update(Update(Update(gs,
    highlightsStorageKey(doc), hl),
    annotationsKey(doc), an),
    commentsKey(doc), co),
    stickyNotesKey(doc), sn),
    drawingsKey(doc), dr)

(***************************************************************************)
(* Element ids: a new element gets the smallest id no live reference uses. *)
(***************************************************************************)
ElementsOf(list) == {list[i].element : i \in 1..Len(list)}
UsedIds ==
  UNION {IdsOfLeaves(dom[p]) : p \in Pages}
    \cup ElementsOf(highlights) \cup ElementsOf(annotations)
    \cup ElementsOf(comments) \cup ElementsOf(stickyNotes)
    \cup {e.id : e \in noteEls}
RECURSIVE PickFresh(_, _)
PickFresh(used, n) ==
  IF n = 0 THEN <<>>
  ELSE LET i == CHOOSE i \in 1..(Cardinality(used) + 1) :
                  i \notin used /\ \A j \in 1..(i - 1) : j \in used
       IN <<i>> \o PickFresh(used \cup {i}, n - 1)
Fresh(n) == PickFresh({i \in UsedIds : i > 0}, n)

\* the state before any preview is opened, with gs in globalState; the
\* script's variables hold the values of their declarations
\* no second preview
NoPeer == [open |-> FALSE, savedHighlights |-> <<>>]

Started(gs) ==
  /\ session = "closed"
  /\ resource = None
  /\ filePages = NumPages
  /\ globalState = gs
  /\ savedHighlights = <<>>
  /\ savedAnnotations = <<>>
  /\ savedComments = <<>>
  /\ savedStickyNotes = <<>>
  /\ savedDrawings = <<>>
  /\ pagesCount = 0
  /\ currentPageNumber = 1
  /\ dom = NoDom
  /\ noteEls = {}
  /\ selection = [page |-> 0, from |-> 0, to |-> 0]
  /\ highlights = <<>>
  /\ currentHighlightIndex = 0 - 1
  /\ annotations = <<>>
  /\ comments = <<>>
  /\ stickyNotes = <<>>
  /\ drawingAnnotations = <<>>
  /\ dragging = 0
  /\ isDrawingMode = FALSE
  /\ drawingType = "rectangle"
  /\ drawingCanvas = NoCanvas
  /\ isDrawing = FALSE
  /\ startPoint = Origin
  /\ tempShape = NoShape
  /\ currentDrawingPath = <<>>
  /\ painted = {}
  /\ loadEvents = 0
  /\ restoreTimers = <<>>
  /\ singleTimers = <<>>
  /\ toView = <<>>
  /\ toHost = <<>>
  /\ dialog = NoDialog
  /\ modal = "none"
  /\ currentHighlightColor = Yellow
  /\ extractCancelled = FALSE
  /\ extractProgressCallback = 0
  /\ progress = {}
  /\ viewExtractCancelled = FALSE
  /\ extractions = {}
  /\ jobs = 0
  /\ cancelled = {}
  /\ pageHistory = <<>>
  /\ historyIndex = 0 - 1
  /\ isNavigating = FALSE
  /\ peer = NoPeer

Init == Started([k \in Keys |-> <<>>])

\* no load event and no restore timer is pending
Settled == loadEvents = 0 /\ restoreTimers = <<>> /\ singleTimers = <<>>
InFlight == Len(toView) + Len(toHost)
\* the user turns to something new: few messages are on their way and no
\* question of the host is open
Idle == InFlight < MaxInFlight /\ dialog.kind = "none" /\ modal = "none"

(***************************************************************************)
(* Inputs                                                                  *)
(***************************************************************************)
Sel(p, a, b) == [page |-> p, from |-> a, to |-> b]
NoSel == Sel(0, 0, 0)
\* the selections the user makes: characters [from, to) of a page's text
Selections ==
  { NoSel,              \* nothing selected
    Sel(1, 0, 3),       \* "the" of the first chunk
    Sel(1, 5, 8),       \* "the" of the second chunk
    Sel(1, 4, 7),       \* "a" + "th": spans two chunks
    Sel(2, 0, SummaryLen + 1) }   \* longer than a summary line
\* selections with nothing but whitespace, or with whitespace around the text
BlankSelections ==
  { NoSel,
    Sel(1, 3, 4),       \* " "
    Sel(1, 3, 5),       \* " a"
    Sel(1, 0, 3),       \* "the"
    Sel(1, 4, 7) }      \* "a" + "th"
The == <<"t", "h", "e">>

\* window.getSelection() can hold sel: its page is the one being viewed and
\* its text layer is rendered
Selectable(sel) ==
  \/ sel = NoSel
  \/ /\ sel.page = currentPageNumber
     /\ sel.page <= pagesCount
     /\ sel.to <= Len(TextContent(dom[sel.page]))
     /\ \/ Len(dom[sel.page]) + 2 <= MaxNodes
        \/ Blank(Sub(TextContent(dom[sel.page]), sel.from, sel.to))
SelRange(sel) == Range(dom[sel.page], sel.from, sel.to)
\* selection.toString()
SelText(sel) ==
  IF sel = NoSel THEN <<>> ELSE RangeText(dom[sel.page], SelRange(sel))

(***************************************************************************)
(* Session: opening and closing the preview, the file changing on disk     *)
(***************************************************************************)
\* loadHighlights
loadHighlights(gs, doc) == gs[getHighlightsKey(doc)]

\* new PdfPreview(...): the constructor loads the highlights; the webview
\* starts with empty lists and opens the document: open(path) loads it and
\* load(doc) loads it again, and the viewer raises 'documentloaded' for the
\* last load and possibly for the one it replaces
OpenPreview(doc) ==
  /\ session = "closed"
  /\ session' = "open"
  /\ resource' = doc
  /\ savedHighlights' = loadHighlights(globalState, doc)
  /\ savedAnnotations' = <<>>
  /\ savedComments' = <<>>
  /\ savedStickyNotes' = <<>>
  /\ savedDrawings' = <<>>
  /\ pagesCount' = filePages
  /\ currentPageNumber' = 1
  /\ \E n \in 1..LoadsOnOpen : loadEvents' = n
  /\ UNCHANGED <<toolVars, filePages, globalState, domVars, listVars, timerVars,
                 toView, toHost>>

\* the editor is closed: webview and PdfPreview are disposed, globalState stays
ClosePreview ==
  /\ session = "open"
  /\ session' = "closed"
  /\ resource' = None
  /\ savedHighlights' = <<>>
  /\ savedAnnotations' = <<>>
  /\ savedComments' = <<>>
  /\ savedStickyNotes' = <<>>
  /\ savedDrawings' = <<>>
  /\ pagesCount' = 0
  /\ currentPageNumber' = 1
  /\ loadEvents' = 0
  /\ dom' = NoDom
  /\ noteEls' = {}
  /\ selection' = NoSel
  /\ highlights' = <<>>
  /\ currentHighlightIndex' = 0 - 1
  /\ annotations' = <<>>
  /\ comments' = <<>>
  /\ stickyNotes' = <<>>
  /\ drawingAnnotations' = <<>>
  /\ dragging' = 0
  /\ isDrawingMode' = FALSE
  /\ drawingType' = "rectangle"
  /\ drawingCanvas' = NoCanvas
  /\ isDrawing' = FALSE
  /\ startPoint' = Origin
  /\ tempShape' = NoShape
  /\ currentDrawingPath' = <<>>
  /\ painted' = {}
  /\ restoreTimers' = <<>>
  /\ singleTimers' = <<>>
  /\ toView' = <<>>
  /\ toHost' = <<>>
  /\ dialog' = NoDialog
  /\ modal' = "none"
  /\ currentHighlightColor' = Yellow
  /\ extractCancelled' = FALSE
  /\ extractProgressCallback' = 0
  /\ progress' = {}
  /\ viewExtractCancelled' = FALSE
  /\ extractions' = {}
  /\ pageHistory' = <<>>
  /\ historyIndex' = 0 - 1
  /\ isNavigating' = FALSE
  /\ UNCHANGED <<filePages, globalState, jobs, cancelled, peer>>

\* the file changes on disk; watcher.onDidChange -> reload() posts 'reload'
FileChanged(n) ==
  /\ filePages' = n
  /\ IF session = "open"
       THEN /\ Idle /\ Settled
            /\ Len(highlights) <= MaxAnchors
            /\ toView' = Append(toView, Msg("reload", None))
       ELSE /\ n # filePages
            /\ UNCHANGED toView
  /\ UNCHANGED <<toolVars, session, resource, globalState, hostVars, docVars,
                 domVars,
                 listVars, timerVars, toHost>>

\* case 'reload': the document is loaded again, the viewer is emptied (its
\* pages with their text layers, notes and canvas); the variables of the
\* script are left as they are
ViewReload ==
  /\ toView # <<>> /\ Head(toView).type = "reload"
  /\ toView' = Tail(toView)
  /\ pagesCount' = filePages
  /\ currentPageNumber' =
       IF currentPageNumber > filePages THEN filePages ELSE currentPageNumber
  /\ dom' = NoDom
  /\ noteEls' = {[e EXCEPT !.attached = FALSE] : e \in noteEls}
  /\ selection' = NoSel
  /\ drawingCanvas' =
       [drawingCanvas EXCEPT !.attached = FALSE]
  /\ loadEvents' = loadEvents + 1
  /\ UNCHANGED <<askVars, dragging, isDrawingMode, drawingType, isDrawing, startPoint,
                 tempShape, currentDrawingPath, painted, session, resource,
                 filePages, globalState, hostVars, listVars,
                 timerVars, toHost>>

\* eventBus.on('documentloaded', ...): ask the host for the stored highlights
DocumentLoaded ==
  /\ loadEvents > 0
  /\ loadEvents' = loadEvents - 1
  /\ toHost' = Append(toHost, Msg("requestStoredHighlights", None))
  /\ UNCHANGED <<toolVars, session, resource, filePages, globalState, hostVars,
                 pagesCount,
                 currentPageNumber, domVars, listVars, timerVars, toView>>

\* the rendering library populates the text layer of a page
RenderTextLayer(p) ==
  /\ session = "open"
  /\ loadEvents = 0
  /\ p <= pagesCount
  /\ dom[p] = <<>>
  /\ dom' = [dom EXCEPT ![p] = PristinePage(p)]
  /\ UNCHANGED <<toolVars, session, resource, filePages, globalState, hostVars,
                 docVars,
                 noteEls, selection, listVars, timerVars, toView, toHost>>

\* the user scrolls to another page
PageChange(p) ==
  /\ session = "open"
  /\ p <= pagesCount
  /\ p # currentPageNumber
  /\ currentPageNumber' = p
  /\ UNCHANGED <<toolVars, session, resource, filePages, globalState, hostVars,
                 pagesCount,
                 loadEvents, domVars, listVars, timerVars, toView, toHost>>

(***************************************************************************)
(* Highlights: host side                                                   *)
(***************************************************************************)
HostGets(t) == session = "open" /\ toHost # <<>> /\ Head(toHost).type = t
ViewGets(t) == session = "open" /\ toView # <<>> /\ Head(toView).type = t

Persisted(text, color, page) == [text |-> text, color |-> color, page |-> page]

\* the user selects text and runs the command pdf.highlightSelection
hostHighlightSelection(S) ==
  /\ session = "open" /\ Idle
  /\ Len(highlights) + Len(annotations) + Len(comments) < MaxAnchors
  /\ \E sel \in S : Selectable(sel) /\ selection' = sel
  /\ toView' =
       Append(toView, Msg("highlightSelection", currentHighlightColor))
  /\ UNCHANGED <<toolVars, session, resource, filePages, globalState, hostVars,
                 docVars,
                 dom, noteEls, listVars, timerVars, toHost>>

\* addHighlightToStorage
addHighlightToStorage(list, highlight) == Append(list, highlight)

\* case 'highlightAdded'
HostHighlightAdded ==
  /\ HostGets("highlightAdded")
  /\ toHost' = Tail(toHost)
  /\ savedHighlights' = addHighlightToStorage(savedHighlights, Head(toHost).arg)
  /\ globalState' =
       Update(globalState, getHighlightsKey(resource), savedHighlights')
  /\ UNCHANGED <<toolVars, session, resource, filePages, savedAnnotations,
                 savedComments,
                 savedStickyNotes, savedDrawings, docVars, domVars,
                 listVars, timerVars, toView>>

\* a removal that takes the index for a 1-based position
removeHighlightOneBased(list, index) ==
  IF index >= 0 /\ index < Len(list) THEN Splice(list, index - 1) ELSE list

\* a removal that takes an index past the end for the last entry
removeHighlightClamped(list, index) ==
  IF list = <<>> \/ index < 0 THEN list
  ELSE Splice(list, IF index < Len(list) THEN index ELSE Len(list) - 1)

\* removeHighlightFromStorage: the list after the call
removeHighlightFromStorage(list, index) ==
  IF index >= 0 /\ index < Len(list) THEN Splice(list, index) ELSE list

\* case 'highlightRemovedWithData'
HostHighlightRemovedWithData ==
  /\ HostGets("highlightRemovedWithData")
  /\ toHost' = Tail(toHost)
  /\ LET index == Head(toHost).arg
     IN /\ savedHighlights' = removeHighlightFromStorage(savedHighlights, index)
        /\ globalState' =
             IF index >= 0 /\ index < Len(savedHighlights)
               THEN Update(globalState, getHighlightsKey(resource),
                           savedHighlights')
               ELSE globalState
  /\ UNCHANGED <<toolVars, session, resource, filePages, savedAnnotations,
                 savedComments,
                 savedStickyNotes, savedDrawings, docVars, domVars,
                 listVars, timerVars, toView>>

\* case 'highlightsCleared': clearHighlightsStorage
HostHighlightsCleared ==
  /\ HostGets("highlightsCleared")
  /\ toHost' = Tail(toHost)
  /\ savedHighlights' = <<>>
  /\ globalState' =
       Update(globalState, getHighlightsKey(resource), savedHighlights')
  /\ UNCHANGED <<toolVars, session, resource, filePages, savedAnnotations,
                 savedComments,
                 savedStickyNotes, savedDrawings, docVars, domVars,
                 listVars, timerVars, toView>>

\* case 'requestStoredHighlights': PdfPreview.restoreHighlights
HostRequestStoredHighlights ==
  /\ HostGets("requestStoredHighlights")
  /\ toHost' = Tail(toHost)
  /\ toView' =
       IF Len(savedHighlights) > 0
         THEN Append(toView, Msg("restoreHighlights", savedHighlights))
         ELSE toView
  /\ UNCHANGED <<toolVars, session, resource, filePages, globalState, hostVars,
                 docVars,
                 domVars, listVars, timerVars>>

\* command pdf.showHighlightsList
hostShowHighlightsList ==
  /\ session = "open" /\ Idle
  /\ toView' = Append(toView, Msg("getHighlightsSummary", None))
  /\ UNCHANGED <<toolVars, session, resource, filePages, globalState, hostVars,
                 docVars,
                 domVars, listVars, timerVars, toHost>>

\* command pdf.showHighlightsList, run a second time while the request of
\* the first run is on its way to the view
hostShowHighlightsListAgain ==
  /\ session = "open" /\ dialog.kind = "none" /\ modal = "none"
  /\ toHost = <<>>
  /\ toView = << Msg("getHighlightsSummary", None) >>
  /\ toView' = Append(toView, Msg("getHighlightsSummary", None))
  /\ UNCHANGED <<toolVars, session, resource, filePages, globalState, hostVars,
                 docVars, domVars, listVars, timerVars, toHost>>

\* case 'highlightsSummary': handleHighlightsSummary up to its first await:
\* a notice for an empty summary, otherwise a quick pick of the summary,
\* which takes the place of the quick pick or input box that was open
handleHighlightsSummary ==
  /\ HostGets("highlightsSummary")
  /\ toHost' = Tail(toHost)
  /\ LET summary == Head(toHost).arg
     IN dialog' = IF Len(summary) = 0 THEN dialog
                  ELSE Dialog("highlights", summary)
  /\ UNCHANGED <<extractVars, navVars, peer, dragging, drawVars, modal, currentHighlightColor, session,
                 resource, filePages, globalState, hostVars, docVars, domVars,
                 listVars, timerVars, toView>>

\* handleHighlightsSummary after showQuickPick(allItems): the user picks a
\* highlight, and is asked what to do with it, or picks 'delete all', and
\* is asked to confirm
pickHighlight ==
  /\ session = "open" /\ dialog.kind = "highlights"
  /\ \/ /\ \E k \in 1..Len(dialog.arg) :
             dialog' = Dialog("highlightAction",
                              [index |-> dialog.arg[k].index - 1,
                               text |-> dialog.arg[k].text])
        /\ UNCHANGED modal
     \/ /\ dialog' = NoDialog
        /\ modal' = "clearHighlights"
  /\ UNCHANGED <<extractVars, navVars, peer, dragging, drawVars, currentHighlightColor, session, resource,
                 filePages, globalState, hostVars, docVars, domVars, listVars,
                 timerVars, toView, toHost>>

\* handleHighlightsSummary after showQuickPick(highlightActions): jump to
\* the highlight or delete it, by the index the summary gave it; 'copy'
\* reads the text of the summary
pickHighlightAction ==
  /\ session = "open" /\ dialog.kind = "highlightAction"
  /\ dialog' = NoDialog
  /\ \/ toView' = Append(toView, Msg("jumpToHighlightIndex", dialog.arg.index))
     \/ toView' = Append(toView, Msg("removeHighlight", dialog.arg.index))
     \/ UNCHANGED toView
  /\ UNCHANGED <<extractVars, navVars, peer, dragging, drawVars, modal, currentHighlightColor, session,
                 resource, filePages, globalState, hostVars, docVars, domVars,
                 listVars, timerVars, toHost>>

\* the user closes a quick pick or an input box without an answer: the
\* function that opened it returns
dismissDialog ==
  /\ session = "open" /\ dialog.kind # "none"
  /\ dialog' = NoDialog
  /\ UNCHANGED <<extractVars, navVars, peer, dragging, drawVars, modal, currentHighlightColor, session,
                 resource, filePages, globalState, hostVars, docVars, domVars,
                 listVars, timerVars, toView, toHost>>

\* command pdf.clearAllHighlights up to its await: the user is asked to
\* confirm
hostClearAllHighlights ==
  /\ session = "open" /\ Idle
  /\ modal' = "clearHighlights"
  /\ UNCHANGED <<extractVars, navVars, peer, dragging, drawVars, dialog, currentHighlightColor, session,
                 resource, filePages, globalState, hostVars, docVars, domVars,
                 listVars, timerVars, toView, toHost>>

\* showWarningMessage(confirmClearHighlights, {modal: true}, confirm): the
\* user confirms, and the view is told to clear, or declines
answerClearHighlights ==
  /\ session = "open" /\ modal = "clearHighlights"
  /\ modal' = "none"
  /\ \/ toView' = Append(toView, Msg("clearAllHighlights", None))
     \/ UNCHANGED toView
  /\ UNCHANGED <<extractVars, navVars, peer, dragging, drawVars, dialog, currentHighlightColor, session,
                 resource, filePages, globalState, hostVars, docVars, domVars,
                 listVars, timerVars, toHost>>

\* the values of the eight colors setHighlightColor offers, yellow first:
\* #FFFF00 #90EE90 #87CEEB #FFB6C1 #FFA500 #DDA0DD #FF6B6B #00CED1
PresetColors ==
  << Yellow,
     << "#", "9", "0", "E", "E", "9", "0" >>,
     << "#", "8", "7", "C", "E", "E", "B" >>,
     << "#", "F", "F", "B", "6", "C", "1" >>,
     << "#", "F", "F", "A", "5", "0", "0" >>,
     << "#", "D", "D", "A", "0", "D", "D" >>,
     << "#", "F", "F", "6", "B", "6", "B" >>,
     << "#", "0", "0", "C", "E", "D", "1" >> >>
\* what the user types into the input box of the custom color
ColorInputs ==
  { <<>>,
    << "r", "e", "d" >>,
    << "#", "F", "F", "0", "0", "0", "0" >>,
    << "#", "a", "b", "c", "d", "e", "f" >>,
    << "#", "F", "F", "F" >>,
    << "F", "F", "0", "0", "0", "0" >>,
    << "#", "G", "G", "0", "0", "0", "0" >>,
    << " ", "#", "F", "F", "0", "0", "0", "0" >>,
    << "#", "F", "F", "0", "0", "0", "0", "0" >> }
\* [0-9A-Fa-f]
HexDigit ==
  {"0", "1", "2", "3", "4", "5", "6", "7", "8", "9",
   "A", "B", "C", "D", "E", "F", "a", "b", "c", "d", "e", "f"}
\* /^#[0-9A-Fa-f]{6}$/.test(value), matched from the first character on
RECURSIVE HexRun(_, _, _)
HexRun(value, from, count) ==
  IF count = 0 THEN from = Len(value) + 1
  ELSE /\ from <= Len(value) /\ value[from] \in HexDigit
       /\ HexRun(value, from + 1, count - 1)
\* a validation that takes every input
validateNothing(value) == "null"
\* validateInput of the input box: the message it shows, or null
validateInput(value) ==
  IF ~(Len(value) >= 1 /\ value[1] = "#" /\ HexRun(value, 2, 6))
    THEN "invalidColorFormat" ELSE "null"
\* the input box of the custom color holding value
ColorBox(value) ==
  Dialog("customColor", [value |-> value, message |-> validateInput(value)])

\* command pdf.setHighlightColor up to showQuickPick(colors)
hostSetHighlightColor ==
  /\ session = "open" /\ Idle
  /\ dialog' = Dialog("colors", <<>>)
  /\ UNCHANGED <<extractVars, navVars, peer, dragging, drawVars, modal, currentHighlightColor, session,
                 resource, filePages, globalState, hostVars, docVars, domVars,
                 listVars, timerVars, toView, toHost>>

\* setHighlightColor after showQuickPick(colors): one of the offered colors
\* becomes the current color, or 'custom' opens the input box, empty
pickColor ==
  /\ session = "open" /\ dialog.kind = "colors"
  /\ \/ \E k \in 1..Len(PresetColors) :
          /\ currentHighlightColor' = PresetColors[k]
          /\ dialog' = NoDialog
     \/ /\ dialog' = ColorBox(<<>>)
        /\ UNCHANGED currentHighlightColor
  /\ UNCHANGED <<extractVars, navVars, peer, dragging, drawVars, modal, session, resource, filePages,
                 globalState, hostVars, docVars, domVars, listVars, timerVars,
                 toView, toHost>>

\* the user types into the input box: validateInput runs on what it holds
typeColor ==
  /\ session = "open" /\ dialog.kind = "customColor"
  /\ \E value \in ColorInputs \ {dialog.arg.value} : dialog' = ColorBox(value)
  /\ UNCHANGED <<extractVars, navVars, peer, dragging, drawVars, modal, currentHighlightColor, session,
                 resource, filePages, globalState, hostVars, docVars, domVars,
                 listVars, timerVars, toView, toHost>>

\* the user presses Enter in the input box: while it shows a message of
\* validateInput it stays open as it is; otherwise showInputBox returns
\* what it holds, which becomes the current color unless it is empty
acceptColor ==
  /\ session = "open" /\ dialog.kind = "customColor"
  /\ IF dialog.arg.message # "null"
       THEN UNCHANGED <<dialog, currentHighlightColor>>
       ELSE /\ dialog' = NoDialog
            /\ currentHighlightColor' =
                 IF dialog.arg.value # <<>> THEN dialog.arg.value
                 ELSE currentHighlightColor
  /\ UNCHANGED <<extractVars, navVars, peer, dragging, drawVars, modal, session, resource, filePages,
                 globalState, hostVars, docVars, domVars, listVars, timerVars,
                 toView, toHost>>

\* messages the host answers with a notification only, or not at all
NoticeTypes ==
  {"noSelection", "highlightRemoved", "highlightsRestored", "highlightError",
   "noHighlights", "highlightJumped",
   "commentEdited", "commentJumped", "noComments",
   "printInfo", "extractError", "annotationsRestored",
   "annotationError", "commentError", "commentDeleted", "stickyNoteDeleted",
   "stickyNoteError", "drawingDeleted", "drawingsCleared",
   "drawingModeStarted", "drawingModeStopped"}
HostNotice ==
  /\ session = "open" /\ toHost # <<>> /\ Head(toHost).type \in NoticeTypes
  /\ toHost' = Tail(toHost)
  /\ UNCHANGED <<toolVars, session, resource, filePages, globalState, hostVars,
                 docVars,
                 domVars, listVars, timerVars, toView>>

(***************************************************************************)
(* Highlights: view side                                                   *)
(***************************************************************************)
Shown(el, color, text, page) ==
  [element |-> el, color |-> color, text |-> text, page |-> page]
Post2(q, a, b) == Append(Append(q, a), b)

\* highlightSelection(color)
highlightSelection ==
  /\ ViewGets("highlightSelection")
  /\ toView' = Tail(toView)
  /\ LET color == Head(toView).arg
         text == Trim(SelText(selection))
         page == currentPageNumber
     IN IF text # <<>>
          THEN LET leaves == dom[selection.page]
                   r == SelRange(selection)
                   ids == Fresh(1 + Len(leaves[r.sn].path)
                                  + Len(leaves[r.en].path))
                   span == El(ids[1], "pdf-highlight")
               IN IF CanSurround(leaves, r)
                    THEN \* range.surroundContents(span)
                      /\ dom' = [dom EXCEPT ![selection.page] =
                                   SurroundContents(leaves, r, span)]
                      /\ highlights' =
                           Append(highlights,
                                  Shown(span.id, color, text, page))
                      /\ selection' = NoSel
                      /\ toHost' =
                           Append(toHost, Msg("highlightAdded",
                                              Persisted(text, color, page)))
                    ELSE \* extractContents / insertNode
                      \/ LET after == ExtractInsert(leaves, r, span, Tail(ids))
                             content == SpanText(after, span.id)
                         IN /\ dom' = [dom EXCEPT ![selection.page] = after]
                            /\ highlights' =
                                 Append(highlights,
                                        Shown(span.id, color, content, page))
                            /\ selection' = NoSel
                            /\ toHost' =
                                 Append(toHost,
                                        Msg("highlightAdded",
                                            Persisted(content, color, page)))
                      \/ /\ dom' \in FallbackFailures(dom, selection.page, r,
                                                      span, Tail(ids))
                         /\ selection' = IF dom' = dom THEN selection ELSE NoSel
                         /\ toHost' = Append(toHost, Msg("highlightError", None))
                         /\ UNCHANGED highlights
          ELSE /\ toHost' = Append(toHost, Msg("noSelection", None))
               /\ UNCHANGED <<dom, highlights, selection>>
  /\ UNCHANGED <<toolVars, session, resource, filePages, globalState, hostVars,
                 docVars,
                 noteEls, currentHighlightIndex, annotations, comments,
                 stickyNotes, drawingAnnotations, timerVars>>

\* getHighlightsSummary: the summary it posts
HighlightsSummary(list) ==
  [i \in 1..Len(list) |->
     [index |-> i, color |-> list[i].color, text |-> Truncate(list[i].text)]]

\* getHighlightsSummary
getHighlightsSummary ==
  /\ ViewGets("getHighlightsSummary")
  /\ toView' = Tail(toView)
  /\ toHost' = Append(toHost, Msg("highlightsSummary",
                                  HighlightsSummary(highlights)))
  /\ UNCHANGED <<toolVars, session, resource, filePages, globalState, hostVars,
                 docVars,
                 domVars, listVars, timerVars>>

UnwrapAll(d, id) == [p \in Pages |-> Unwrap(d[p], id)]
RECURSIVE UnwrapEach(_, _)
UnwrapEach(d, list) ==
  IF list = <<>> THEN d
  ELSE UnwrapEach(UnwrapAll(d, Head(list).element), Tail(list))

\* removeHighlight(index) without the reset of the current index
removeHighlightKeepsIndex ==
  /\ ViewGets("removeHighlight")
  /\ toView' = Tail(toView)
  /\ LET index == Head(toView).arg
     IN IF index < 0 \/ index >= Len(highlights)
          THEN /\ toHost' = Append(toHost, Msg("highlightError", None))
               /\ UNCHANGED <<dom, highlights, currentHighlightIndex>>
          ELSE /\ dom' = UnwrapAll(dom, highlights[index + 1].element)
               /\ highlights' = Splice(highlights, index)
               /\ currentHighlightIndex' = currentHighlightIndex
               /\ toHost' =
                    Post2(toHost, Msg("highlightRemovedWithData", index),
                          Msg("highlightRemoved", Len(highlights')))
  /\ UNCHANGED <<toolVars, session, resource, filePages, globalState, hostVars,
                 docVars,
                 noteEls, selection, annotations, comments, stickyNotes,
                 drawingAnnotations, timerVars>>

\* removeHighlight(index)
removeHighlight ==
  /\ ViewGets("removeHighlight")
  /\ toView' = Tail(toView)
  /\ LET index == Head(toView).arg
     IN IF index < 0 \/ index >= Len(highlights)
          THEN /\ toHost' = Append(toHost, Msg("highlightError", None))
               /\ UNCHANGED <<dom, highlights, currentHighlightIndex>>
          ELSE /\ dom' = UnwrapAll(dom, highlights[index + 1].element)
               /\ highlights' = Splice(highlights, index)
               /\ currentHighlightIndex' =
                    IF currentHighlightIndex >= Len(highlights')
                      THEN Len(highlights') - 1
                      ELSE currentHighlightIndex
               /\ toHost' =
                    Post2(toHost, Msg("highlightRemovedWithData", index),
                          Msg("highlightRemoved", Len(highlights')))
  /\ UNCHANGED <<toolVars, session, resource, filePages, globalState, hostVars,
                 docVars,
                 noteEls, selection, annotations, comments, stickyNotes,
                 drawingAnnotations, timerVars>>

\* jumpToHighlightIndex(index)
jumpToHighlightIndex ==
  /\ ViewGets("jumpToHighlightIndex")
  /\ toView' = Tail(toView)
  /\ LET index == Head(toView).arg
     IN IF index < 0 \/ index >= Len(highlights)
          THEN /\ toHost' = Append(toHost, Msg("noHighlights", None))
               /\ UNCHANGED currentHighlightIndex
          ELSE /\ currentHighlightIndex' = index
               /\ toHost' =
                    Append(toHost,
                           Msg("highlightJumped",
                               [index |-> index + 1,
                                total |-> Len(highlights),
                                color |-> highlights[index + 1].color]))
  /\ UNCHANGED <<toolVars, session, resource, filePages, globalState, hostVars,
                 docVars, domVars, highlights, annotations, comments,
                 stickyNotes, drawingAnnotations, timerVars>>

\* command pdf.jumpToNextHighlight
hostJumpToNextHighlight ==
  /\ session = "open" /\ Idle
  /\ toView' = Append(toView, Msg("jumpToNextHighlight", None))
  /\ UNCHANGED <<toolVars, session, resource, filePages, globalState, hostVars,
                 docVars,
                 domVars, listVars, timerVars, toHost>>

\* jumpToNextHighlight()
jumpToNextHighlight ==
  /\ ViewGets("jumpToNextHighlight")
  /\ toView' = Tail(toView)
  /\ IF Len(highlights) = 0
       THEN /\ toHost' = Append(toHost, Msg("noHighlights", None))
            /\ UNCHANGED currentHighlightIndex
       ELSE /\ currentHighlightIndex' =
                 (currentHighlightIndex + 1) % Len(highlights)
            /\ toHost' =
                 Append(toHost,
                        Msg("highlightJumped",
                            [index |-> currentHighlightIndex' + 1,
                             total |-> Len(highlights),
                             color |->
                               highlights[currentHighlightIndex' + 1].color]))
  /\ UNCHANGED <<toolVars, session, resource, filePages, globalState, hostVars,
                 docVars, domVars, highlights, annotations, comments,
                 stickyNotes, drawingAnnotations, timerVars>>

\* clearAllHighlights
clearAllHighlights ==
  /\ ViewGets("clearAllHighlights")
  /\ toView' = Tail(toView)
  /\ dom' = UnwrapEach(dom, highlights)
  /\ highlights' = <<>>
  /\ currentHighlightIndex' = 0 - 1
  /\ toHost' = Append(toHost, Msg("highlightsCleared", Len(highlights)))
  /\ UNCHANGED <<toolVars, session, resource, filePages, globalState, hostVars,
                 docVars,
                 noteEls, selection, annotations, comments, stickyNotes,
                 drawingAnnotations, timerVars>>

\* restoreHighlights(savedHighlights): arm the 1000 ms timer
restoreHighlights ==
  /\ ViewGets("restoreHighlights")
  /\ toView' = Tail(toView)
  /\ restoreTimers' =
       IF Len(Head(toView).arg) = 0 THEN restoreTimers
       ELSE Append(restoreTimers, Head(toView).arg)
  /\ UNCHANGED <<toolVars, session, resource, filePages, globalState, hostVars,
                 docVars,
                 domVars, listVars, singleTimers, toHost>>

\* pdfViewer.currentPageNumber = page, page by page over the saved list; the
\* viewer keeps its page when the number is not a page of the document
RECURSIVE PageAfter(_, _, _)
PageAfter(cur, saved, count) ==
  IF saved = <<>> THEN cur
  ELSE PageAfter(IF Head(saved).page >= 1 /\ Head(saved).page <= count
                   THEN Head(saved).page ELSE cur,
                 Tail(saved), count)

\* the timer of restoreHighlights: restoreSingleHighlight for each saved
\* highlight (moves to its page, arms a 500 ms timer), then the count
RestoreTimer ==
  /\ session = "open" /\ restoreTimers # <<>>
  /\ restoreTimers' = Tail(restoreTimers)
  /\ singleTimers' = singleTimers \o Head(restoreTimers)
  /\ currentPageNumber' =
       PageAfter(currentPageNumber, Head(restoreTimers), pagesCount)
  /\ toHost' =
       IF Len(highlights) > 0
         THEN Append(toHost, Msg("highlightsRestored", Len(highlights)))
         ELSE toHost
  /\ UNCHANGED <<toolVars, session, resource, filePages, globalState, hostVars,
                 pagesCount,
                 loadEvents, domVars, listVars, toView>>

\* a lookup that falls back to the last page for a page past the end
TextLayerClamped(d, page, count) ==
  IF page \in Pages /\ count >= 1 THEN d[IF page <= count THEN page ELSE count]
  ELSE <<>>

\* document.querySelector('.page[data-page-number=...] .textLayer')
TextLayer(d, page, count) ==
  IF page \in Pages /\ page <= count THEN d[page] ELSE <<>>

\* a loop that keeps the last text node that contains text, 0 if none
LastMatch(leaves, text) ==
  LET hits == {k \in 1..Len(leaves) : IndexOf(leaves[k].txt, text) # 0 - 1}
  IN IF hits = {} THEN 0 ELSE CHOOSE k \in hits : \A j \in hits : k >= j

\* the TreeWalker loop: the first text node that contains text, 0 if none
FirstMatch(leaves, text) ==
  LET hits == {k \in 1..Len(leaves) : IndexOf(leaves[k].txt, text) # 0 - 1}
  IN IF hits = {} THEN 0 ELSE CHOOSE k \in hits : \A j \in hits : k <= j

\* the text layer after the matched substring has been wrapped in span
WrapMatch(leaves, text, span) ==
  LET k == FirstMatch(leaves, text)
      at == IndexOf(leaves[k].txt, text)
  IN SurroundContents(leaves,
       [sn |-> k, so |-> at, en |-> k, eo |-> at + Len(text)], span)

\* a restore that records the highlight whether or not its text was found
restoreSingleHighlightAlways ==
  /\ session = "open" /\ singleTimers # <<>>
  /\ singleTimers' = Tail(singleTimers)
  /\ LET h == Head(singleTimers)
         textLayer == TextLayer(dom, h.page, pagesCount)
         span == El(Fresh(1)[1], "pdf-highlight")
     IN /\ dom' = IF FirstMatch(textLayer, h.text) = 0 THEN dom
                  ELSE [dom EXCEPT ![h.page] = WrapMatch(textLayer, h.text,
                  span)]
        /\ highlights' =
             Append(highlights, Shown(span.id, h.color, h.text, h.page))
  /\ UNCHANGED <<toolVars, session, resource, filePages, globalState, hostVars,
                 docVars,
                 noteEls, selection, currentHighlightIndex, annotations,
                 comments, stickyNotes, drawingAnnotations, restoreTimers,
                 toView, toHost>>

\* a restore that runs the timer armed last before the ones armed earlier
restoreSingleHighlightLast ==
  /\ session = "open" /\ singleTimers # <<>>
  /\ singleTimers' = SubSeq(singleTimers, 1, Len(singleTimers) - 1)
  /\ LET h == singleTimers[Len(singleTimers)]
         textLayer == TextLayer(dom, h.page, pagesCount)
         span == El(Fresh(1)[1], "pdf-highlight")
     IN IF FirstMatch(textLayer, h.text) = 0
          THEN UNCHANGED <<dom, highlights>>
          ELSE /\ dom' = [dom EXCEPT ![h.page] =
                            WrapMatch(textLayer, h.text, span)]
               /\ highlights' =
                    Append(highlights, Shown(span.id, h.color, h.text, h.page))
  /\ UNCHANGED <<toolVars, session, resource, filePages, globalState, hostVars,
                 docVars,
                 noteEls, selection, currentHighlightIndex, annotations,
                 comments, stickyNotes, drawingAnnotations, restoreTimers,
                 toView, toHost>>

\* the timer of restoreSingleHighlight
restoreSingleHighlight ==
  /\ session = "open" /\ singleTimers # <<>>
  /\ singleTimers' = Tail(singleTimers)
  /\ LET h == Head(singleTimers)
         textLayer == TextLayer(dom, h.page, pagesCount)
         span == El(Fresh(1)[1], "pdf-highlight")
     IN IF FirstMatch(textLayer, h.text) = 0
          THEN UNCHANGED <<dom, highlights>>
          ELSE /\ dom' = [dom EXCEPT ![h.page] =
                            WrapMatch(textLayer, h.text, span)]
               /\ highlights' =
                    Append(highlights, Shown(span.id, h.color, h.text, h.page))
  /\ UNCHANGED <<toolVars, session, resource, filePages, globalState, hostVars,
                 docVars,
                 noteEls, selection, currentHighlightIndex, annotations,
                 comments, stickyNotes, drawingAnnotations, restoreTimers,
                 toView, toHost>>

(***************************************************************************)
(* Underline, strikethrough, squiggly and comments                         *)
(***************************************************************************)
AnnotationTypes == {"underline", "strikethrough", "squiggly"}
CommandOf ==
  [underline |-> "underlineSelection",
   strikethrough |-> "strikethroughSelection",
   squiggly |-> "squigglySelection"]
ClassOf ==
  [underline |-> "pdf-underline", strikethrough |-> "pdf-strikethrough",
   squiggly |-> "pdf-squiggly"]
CommentColor == "#FFE4B5"
CommentTexts == {<<"n", "b">>}
Icon == <<"@">>       \* the text of the comment icon (a speech balloon)

PersistedAnnotation(type, text, color, page) ==
  [type |-> type, text |-> text, color |-> color, page |-> page]
ShownAnnotation(el, type, color, text, page) ==
  [element |-> el, type |-> type, color |-> color, text |-> text, page |-> page]
PersistedComment(text, comment, color, page) ==
  [text |-> text, comment |-> comment, color |-> color, page |-> page]
ShownComment(el, icon, text, comment, color, page) ==
  [element |-> el, icon |-> icon, text |-> text, comment |-> comment,
   color |-> color, page |-> page]

\* the user selects text and runs pdf.underlineSelection,
\* pdf.strikethroughSelection or pdf.squigglySelection
hostAnnotateSelection(S) ==
  /\ session = "open" /\ Idle
  /\ Len(highlights) + Len(annotations) + Len(comments) < MaxAnchors
  /\ \E sel \in S : Selectable(sel) /\ selection' = sel
  /\ \E type \in AnnotationTypes :
       toView' = Append(toView, Msg(CommandOf[type], currentHighlightColor))
  /\ UNCHANGED <<toolVars, session, resource, filePages, globalState, hostVars,
                 docVars, dom, noteEls, listVars, timerVars, toHost>>

\* the user selects text, runs pdf.addCommentToSelection and enters a comment
hostAddCommentToSelection(S) ==
  /\ session = "open" /\ Idle
  /\ Len(highlights) + Len(annotations) + Len(comments) < MaxAnchors
  /\ \E sel \in S : Selectable(sel) /\ selection' = sel
  /\ \E comment \in CommentTexts :
       toView' = Append(toView, Msg("addCommentToSelection",
                                    [comment |-> comment, color |-> CommentColor]))
  /\ UNCHANGED <<toolVars, session, resource, filePages, globalState, hostVars,
                 docVars, dom, noteEls, listVars, timerVars, toHost>>

\* annotateSelection(type, color)
annotateSelection ==
  /\ session = "open" /\ toView # <<>>
  /\ \E type \in AnnotationTypes :
       /\ Head(toView).type = CommandOf[type]
       /\ LET color == Head(toView).arg
              text == Trim(SelText(selection))
              page == currentPageNumber
          IN IF text = <<>>
               THEN /\ toHost' = Append(toHost, Msg("noSelection", None))
                    /\ UNCHANGED <<dom, annotations, selection>>
               ELSE LET leaves == dom[selection.page]
                        r == SelRange(selection)
                        ids == Fresh(1 + Len(leaves[r.sn].path)
                                       + Len(leaves[r.en].path))
                        span == El(ids[1], ClassOf[type])
                        after ==
                          IF CanSurround(leaves, r)
                            THEN SurroundContents(leaves, r, span)
                            ELSE ExtractInsert(leaves, r, span, Tail(ids))
                        content ==
                          IF CanSurround(leaves, r) THEN text
                          ELSE SpanText(after, span.id)
                    IN \/ /\ dom' = [dom EXCEPT ![selection.page] = after]
                          /\ annotations' =
                               Append(annotations,
                                      ShownAnnotation(span.id, type, color,
                                                      content, page))
                          /\ selection' = NoSel
                          /\ toHost' =
                               Append(toHost,
                                      Msg("annotationAdded",
                                          PersistedAnnotation(type, content,
                                                              color, page)))
                       \/ /\ ~CanSurround(leaves, r)
                          /\ dom' \in FallbackFailures(dom, selection.page, r,
                                                       span, Tail(ids))
                          /\ selection' = IF dom' = dom THEN selection ELSE NoSel
                          /\ toHost' =
                               Append(toHost, Msg("annotationError", None))
                          /\ UNCHANGED annotations
  /\ toView' = Tail(toView)
  /\ UNCHANGED <<toolVars, session, resource, filePages, globalState, hostVars,
                 docVars, noteEls, highlights, currentHighlightIndex, comments,
                 stickyNotes, drawingAnnotations, timerVars>>

\* span.appendChild(node): leaf becomes the last text node below element id
AppendChild(leaves, id, leaf) ==
  LET in == {k \in 1..Len(leaves) :
               \E m \in 1..Len(leaves[k].path) : leaves[k].path[m].id = id}
      last == CHOOSE k \in in : \A j \in in : j <= k
  IN InsertAt(leaves, last, leaf)

\* a capture of a comment that keeps the comment when the wrap has failed
addCommentToSelectionOrphan ==
  /\ ViewGets("addCommentToSelection")
  /\ toView' = Tail(toView)
  /\ LET comment == Head(toView).arg.comment
         color == Head(toView).arg.color
         text == Trim(SelText(selection))
         page == currentPageNumber
     IN IF text = <<>>
          THEN /\ toHost' = Append(toHost, Msg("noSelection", None))
               /\ UNCHANGED <<dom, comments, selection>>
          ELSE LET leaves == dom[selection.page]
                   r == SelRange(selection)
                   ids == Fresh(2)
                   span == El(ids[1], "pdf-comment-highlight")
                   icon == El(ids[2], "pdf-comment-icon")
                   wrapped == SurroundContents(leaves, r, span)
               IN IF CanSurround(leaves, r)
                    THEN /\ dom' =
                              [dom EXCEPT ![selection.page] =
                                 AppendChild(wrapped, span.id,
                                   Leaf(Icon, leaves[r.sn].path
                                                \o <<span, icon>>))]
                         /\ comments' =
                              Append(comments,
                                     ShownComment(span.id, icon.id, text,
                                                  comment, color, page))
                         /\ selection' = NoSel
                         /\ toHost' =
                              Append(toHost,
                                     Msg("commentAdded",
                                         PersistedComment(text, comment,
                                                          color, page)))
                    ELSE /\ comments' =
                              Append(comments,
                                     ShownComment(span.id, icon.id, text,
                                                  comment, color, page))
                         /\ toHost' =
                              Append(toHost,
                                     Msg("commentAdded",
                                         PersistedComment(text, comment,
                                                          color, page)))
                         /\ UNCHANGED <<dom, selection>>
  /\ UNCHANGED <<toolVars, session, resource, filePages, globalState, hostVars,
                 docVars, noteEls, highlights, currentHighlightIndex,
                 annotations, stickyNotes, drawingAnnotations, timerVars>>

\* addCommentToSelection(commentText, color)
addCommentToSelection ==
  /\ ViewGets("addCommentToSelection")
  /\ toView' = Tail(toView)
  /\ LET comment == Head(toView).arg.comment
         color == Head(toView).arg.color
         text == Trim(SelText(selection))
         page == currentPageNumber
     IN IF text = <<>>
          THEN /\ toHost' = Append(toHost, Msg("noSelection", None))
               /\ UNCHANGED <<dom, comments, selection>>
          ELSE LET leaves == dom[selection.page]
                   r == SelRange(selection)
                   ids == Fresh(2)
                   span == El(ids[1], "pdf-comment-highlight")
                   icon == El(ids[2], "pdf-comment-icon")
                   wrapped == SurroundContents(leaves, r, span)
               IN IF CanSurround(leaves, r)
                    THEN /\ dom' =
                              [dom EXCEPT ![selection.page] =
                                 AppendChild(wrapped, span.id,
                                   Leaf(Icon, leaves[r.sn].path
                                                \o <<span, icon>>))]
                         /\ comments' =
                              Append(comments,
                                     ShownComment(span.id, icon.id, text,
                                                  comment, color, page))
                         /\ selection' = NoSel
                         /\ toHost' =
                              Append(toHost,
                                     Msg("commentAdded",
                                         PersistedComment(text, comment,
                                                          color, page)))
                    ELSE /\ toHost' = Append(toHost, Msg("commentError", None))
                         /\ UNCHANGED <<dom, comments, selection>>
  /\ UNCHANGED <<toolVars, session, resource, filePages, globalState, hostVars,
                 docVars, noteEls, highlights, currentHighlightIndex,
                 annotations, stickyNotes, drawingAnnotations, timerVars>>

\* case 'annotationAdded': addAnnotationToStorage
HostAnnotationAdded ==
  /\ HostGets("annotationAdded")
  /\ toHost' = Tail(toHost)
  /\ savedAnnotations' = Append(savedAnnotations, Head(toHost).arg)
  /\ globalState' =
       saveAllAnnotations(globalState, resource, savedHighlights,
                          savedAnnotations', savedComments, savedStickyNotes,
                          savedDrawings)
  /\ UNCHANGED <<toolVars, session, resource, filePages, savedHighlights,
                 savedComments, savedStickyNotes, savedDrawings, docVars,
                 domVars, listVars, timerVars, toView>>

\* case 'commentAdded': addCommentToStorage
HostCommentAdded ==
  /\ HostGets("commentAdded")
  /\ toHost' = Tail(toHost)
  /\ savedComments' = Append(savedComments, Head(toHost).arg)
  /\ globalState' =
       saveAllAnnotations(globalState, resource, savedHighlights,
                          savedAnnotations, savedComments', savedStickyNotes,
                          savedDrawings)
  /\ UNCHANGED <<toolVars, session, resource, filePages, savedHighlights,
                 savedAnnotations, savedStickyNotes, savedDrawings, docVars,
                 domVars, listVars, timerVars, toView>>

\* Array.prototype.splice(start, 1): a negative start counts from the end,
\* a start at or past the end removes nothing
SpliceOne(list, start) ==
  LET at == IF start >= 0 THEN start
            ELSE IF Len(list) + start < 0 THEN 0 ELSE Len(list) + start
  IN IF at >= Len(list) THEN list ELSE Splice(list, at)
\* splice(index, 1) behind the bounds check the host's other removals have
SpliceChecked(list, index) ==
  IF index >= 0 /\ index < Len(list) THEN Splice(list, index) ELSE list

\* saveComments
saveComments(gs, doc, list) == Update(gs, commentsKey(doc), list)

\* the text the user types into the input box of 'edit'
CommentEdits == {<<"o", "k">>}

\* commentIcon.onclick: showCommentPopup(comments.length - 1), the length
\* being read when the icon is clicked
iconClick ==
  /\ session = "open" /\ InFlight < MaxInFlight
  /\ \E c \in 1..Len(comments) :
       \E p \in Pages : \E e \in ElementsIn(dom[p]) : e.id = comments[c].icon
  /\ LET index == Len(comments) - 1
     IN toHost' =
          IF index < 0 \/ index >= Len(comments) THEN toHost
          ELSE Append(toHost,
                      Msg("showComment",
                          [index |-> index,
                           comment |-> comments[index + 1].comment,
                           text |-> comments[index + 1].text,
                           page |-> comments[index + 1].page]))
  /\ UNCHANGED <<toolVars, session, resource, filePages, globalState, hostVars,
                 docVars, domVars, listVars, timerVars, toView>>

\* case 'showComment': handleShowComment up to showQuickPick(items), which
\* takes the place of the quick pick or input box that was open
HostShowComment ==
  /\ HostGets("showComment")
  /\ toHost' = Tail(toHost)
  /\ dialog' = Dialog("comment", Head(toHost).arg)
  /\ UNCHANGED <<extractVars, navVars, peer, dragging, drawVars, modal, currentHighlightColor, session,
                 resource, filePages, globalState, hostVars, docVars, domVars,
                 listVars, timerVars, toView>>

\* handleShowComment after showQuickPick(items): jump, edit (an input box
\* opens), delete (the view is told, and the host splices its own list
\* and saves it), or copy
pickCommentAction ==
  /\ session = "open" /\ dialog.kind = "comment"
  /\ \/ /\ dialog' = NoDialog
        /\ toView' = Append(toView, Msg("jumpToComment", dialog.arg.index))
        /\ UNCHANGED <<savedComments, globalState>>
     \/ /\ dialog' = Dialog("editComment", dialog.arg)
        /\ UNCHANGED <<toView, savedComments, globalState>>
     \/ /\ dialog' = NoDialog
        /\ toView' = Append(toView, Msg("deleteComment", dialog.arg.index))
        /\ savedComments' = SpliceOne(savedComments, dialog.arg.index)
        /\ globalState' = saveComments(globalState, resource, savedComments')
     \/ /\ dialog' = NoDialog
        /\ UNCHANGED <<toView, savedComments, globalState>>
  /\ UNCHANGED <<extractVars, navVars, peer, dragging, drawVars, modal, currentHighlightColor, session,
                 resource, filePages, savedHighlights, savedAnnotations,
                 savedStickyNotes, savedDrawings, docVars, domVars, listVars,
                 timerVars, toHost>>

\* handleShowComment after showInputBox: the view is told the new comment,
\* and the host's entry at the index, if there is one, takes it
answerEditComment ==
  /\ session = "open" /\ dialog.kind = "editComment"
  /\ dialog' = NoDialog
  /\ \E newComment \in CommentEdits :
       LET index == dialog.arg.index
       IN /\ toView' = Append(toView,
                              Msg("editComment",
                                  [index |-> index, newComment |-> newComment]))
          /\ IF index >= 0 /\ index < Len(savedComments)
               THEN /\ savedComments' =
                         [savedComments EXCEPT ![index + 1].comment = newComment]
                    /\ globalState' =
                         saveComments(globalState, resource, savedComments')
               ELSE UNCHANGED <<savedComments, globalState>>
  /\ UNCHANGED <<extractVars, navVars, peer, dragging, drawVars, modal, currentHighlightColor, session,
                 resource, filePages, savedHighlights, savedAnnotations,
                 savedStickyNotes, savedDrawings, docVars, domVars, listVars,
                 timerVars, toHost>>

\* deleteComment(index)
deleteComment ==
  /\ ViewGets("deleteComment")
  /\ toView' = Tail(toView)
  /\ LET index == Head(toView).arg
     IN IF index < 0 \/ index >= Len(comments)
          THEN /\ toHost' = Append(toHost, Msg("commentError", None))
               /\ UNCHANGED <<dom, comments>>
          ELSE /\ dom' = UnwrapAll(RemoveChild(dom, comments[index + 1].icon),
                                   comments[index + 1].element)
               /\ comments' = Splice(comments, index)
               /\ toHost' = Append(toHost,
                                   Msg("commentDeleted", Len(comments')))
  /\ UNCHANGED <<toolVars, session, resource, filePages, globalState, hostVars,
                 docVars, noteEls, selection, highlights,
                 currentHighlightIndex, annotations, stickyNotes,
                 drawingAnnotations, timerVars>>

\* editComment(index, newComment)
editComment ==
  /\ ViewGets("editComment")
  /\ toView' = Tail(toView)
  /\ LET index == Head(toView).arg.index
     IN IF index < 0 \/ index >= Len(comments)
          THEN /\ toHost' = Append(toHost, Msg("commentError", None))
               /\ UNCHANGED comments
          ELSE /\ comments' =
                    [comments EXCEPT
                       ![index + 1].comment = Head(toView).arg.newComment]
               /\ toHost' = Append(toHost, Msg("commentEdited", index))
  /\ UNCHANGED <<toolVars, session, resource, filePages, globalState, hostVars,
                 docVars, domVars, highlights, currentHighlightIndex,
                 annotations, stickyNotes, drawingAnnotations, timerVars>>

\* jumpToComment(index)
jumpToComment ==
  /\ ViewGets("jumpToComment")
  /\ toView' = Tail(toView)
  /\ LET index == Head(toView).arg
     IN IF index < 0 \/ index >= Len(comments)
          THEN /\ toHost' = Append(toHost, Msg("noComments", None))
               /\ UNCHANGED currentPageNumber
          ELSE /\ currentPageNumber' =
                    IF comments[index + 1].page <= pagesCount
                      THEN comments[index + 1].page ELSE currentPageNumber
               /\ toHost' =
                    Append(toHost,
                           Msg("commentJumped",
                               [index |-> index, total |-> Len(comments)]))
  /\ UNCHANGED <<toolVars, session, resource, filePages, globalState, hostVars,
                 pagesCount, loadEvents, domVars, listVars, timerVars>>

(***************************************************************************)
(* Page ranges                                                             *)
(***************************************************************************)
\* String.prototype.split(c)
RECURSIVE Split(_, _)
Split(s, c) ==
  LET i == IndexOf(s, <<c>>)
  IN IF i < 0 THEN <<s>>
     ELSE <<Sub(s, 0, i)>> \o Split(Sub(s, i + 1, Len(s)), c)

Digits == << "0", "1", "2", "3", "4", "5", "6", "7", "8", "9" >>
IsDigit(c) == \E d \in 1..Len(Digits) : Digits[d] = c
DigitValue(c) == (CHOOSE d \in 1..Len(Digits) : Digits[d] = c) - 1
\* the longest run of digits s starts with
RECURSIVE DigitPrefix(_)
DigitPrefix(s) ==
  IF s # <<>> /\ IsDigit(Head(s)) THEN <<Head(s)>> \o DigitPrefix(Tail(s))
  ELSE <<>>
\* the number a run of digits stands for, in base 10
RECURSIVE Value(_)
Value(ds) ==
  IF ds = <<>> THEN 0
  ELSE 10 * Value(SubSeq(ds, 1, Len(ds) - 1)) + DigitValue(ds[Len(ds)])
\* parseInt(s, 10): white space is skipped, a sign is read, then the digits
\* up to the first character that is none; NaN when there is no digit
parseInt(s) ==
  LET t == TrimLeft(s)
      signed == t # <<>> /\ Head(t) \in {"+", "-"}
      ds == DigitPrefix(IF signed THEN Tail(t) ELSE t)
  IN [nan |-> ds = <<>>,
      n |-> IF signed /\ Head(t) = "-" THEN 0 - Value(ds) ELSE Value(ds)]

\* Set.prototype.add on the pages in the order they were added
AddPage(pages, i, total) ==
  IF i >= 1 /\ i <= total /\ \A k \in 1..Len(pages) : pages[k] # i
    THEN Append(pages, i) ELSE pages
\* for (let i = lo; i <= hi; i++) if (i >= 1 && i <= total) pages.add(i)
RECURSIVE AddRange(_, _, _, _)
AddRange(pages, lo, hi, total) ==
  IF lo > hi THEN pages
  ELSE AddRange(AddPage(pages, lo, total), lo + 1, hi, total)
\* Array.prototype.sort((a, b) => a - b)
RECURSIVE SortAscending(_)
SortAscending(list) ==
  IF list = <<>> THEN <<>>
  ELSE LET k == CHOOSE k \in 1..Len(list) :
                  \A j \in 1..Len(list) : list[k] <= list[j]
       IN <<list[k]>> \o SortAscending(Splice(list, k - 1))
\* the body of the loop of parsePageRange for one part
AddPart(pages, part, total) ==
  IF IndexOf(part, <<"-">>) >= 0
    THEN LET pieces == Split(part, "-")
             start == parseInt(pieces[1])
             end == parseInt(pieces[2])
         IN IF ~start.nan /\ ~end.nan
              THEN AddRange(pages,
                            IF start.n <= end.n THEN start.n ELSE end.n,
                            IF start.n <= end.n THEN end.n ELSE start.n,
                            total)
              ELSE pages
    ELSE LET page == parseInt(part)
         IN IF ~page.nan THEN AddPage(pages, page.n, total) ELSE pages
RECURSIVE AddParts(_, _, _)
AddParts(pages, parts, total) ==
  IF parts = <<>> THEN pages
  ELSE AddParts(AddPart(pages, Head(parts), total), Tail(parts), total)
\* parsePageRange(input) with this._totalPages = total
parsePageRange(input, total) ==
  LET split == Split(input, ",")
      parts == [k \in 1..Len(split) |-> Trim(split[k])]
  IN SortAscending(AddParts(<<>>, parts, total))

\* this._totalPages: the count the view has reported for the document
TotalPages == pagesCount

\* what the user types into the input box of a page range
RangeInputs ==
  {
    <<>>,
    << "1" >>,
    << "2" >>,
    << "3" >>,
    << "0" >>,
    << "1", "-", "2" >>,
    << "2", "-", "1" >>,
    << "1", "-", "3" >>,
    << "2", "-", "1", "5" >>,
    << "1", ",", "2" >>,
    << "2", ",", " ", "1" >>,
    << "1", ",", "1" >>,
    << "1", "-", "2", ",", "2" >>,
    << "a", "b", "c" >>,
    << "2", "a", "b", "c" >>,
    << "1", "-", "2", "-", "3" >>,
    << "a", "-", "2" >>,
    << "1", "-" >>,
    << "-", "2" >>,
    << "1", ",", ",", "2" >>,
    << " ", "1", " " >>,
    << "1", ".", "5" >>,
    << "x", ",", "2" >> }

\* command pdf.printPageRange up to showInputBox: the box opens, empty
hostPrintPageRange ==
  /\ session = "open" /\ Idle /\ loadEvents = 0
  /\ dialog' = Dialog("printRange", <<>>)
  /\ UNCHANGED <<extractVars, navVars, peer, dragging, drawVars, modal, currentHighlightColor, session,
                 resource, filePages, globalState, hostVars, docVars, domVars,
                 listVars, timerVars, toView, toHost>>

\* the user types into the input box of a page range
typeRange ==
  /\ session = "open" /\ dialog.kind \in {"printRange", "textRange"}
  /\ \E input \in RangeInputs \ {dialog.arg} :
       dialog' = Dialog(dialog.kind, input)
  /\ UNCHANGED <<extractVars, navVars, peer, dragging, drawVars, modal, currentHighlightColor, session,
                 resource, filePages, globalState, hostVars, docVars, domVars,
                 listVars, timerVars, toView, toHost>>

\* printPageRange after showInputBox: the pages of the input, if it has
\* any, are sent to the view to be printed
acceptPrintRange ==
  /\ session = "open" /\ dialog.kind = "printRange"
  /\ dialog' = NoDialog
  /\ LET input == dialog.arg
         pages == parsePageRange(input, TotalPages)
     IN toView' = IF input # <<>> /\ Len(pages) > 0
                    THEN Append(toView, Msg("printPages", pages))
                    ELSE toView
  /\ UNCHANGED <<extractVars, navVars, peer, dragging, drawVars, modal, currentHighlightColor, session,
                 resource, filePages, globalState, hostVars, docVars, domVars,
                 listVars, timerVars, toHost>>

\* case 'printPages': printPageRange(pages) tells the host what it prints
\* and opens the print dialog of the viewer
printPages ==
  /\ ViewGets("printPages")
  /\ toView' = Tail(toView)
  /\ toHost' =
       Append(toHost,
              IF Len(Head(toView).arg) = 0 THEN Msg("extractError", None)
              ELSE Msg("printInfo", Head(toView).arg))
  /\ UNCHANGED <<toolVars, session, resource, filePages, globalState, hostVars,
                 docVars, domVars, listVars, timerVars>>

(***************************************************************************)
(* Text extraction                                                         *)
(***************************************************************************)
\* s is a number: one digit or more and nothing else
IsNumber(s) == s # <<>> /\ \A i \in 1..Len(s) : IsDigit(s[i])
\* \d+(-\d+)? matches the whole of part
IsItem(part) ==
  LET ends == Split(part, "-")
  IN Len(ends) \in {1, 2} /\ \A k \in 1..Len(ends) : IsNumber(ends[k])
\* /^(\d+(-\d+)?)(,\s*\d+(-\d+)?)*$/.test(value)
rangePattern(value) ==
  LET parts == Split(value, ",")
  IN /\ IsItem(parts[1])
     /\ \A k \in 2..Len(parts) : IsItem(TrimLeft(parts[k]))
\* validateInput of the input box of extractRangeText: TRUE when the box
\* shows no message
validateRange(value) == Trim(value) = <<>> \/ rangePattern(Trim(value))

\* an extraction the script is running: the pages it reads, how many it
\* has read
Extraction(job, kind, pages, done) ==
  [job |-> job, kind |-> kind, pages |-> pages, done |-> done]
AllPages(total) == [k \in 1..total |-> k]

\* the callback of withProgress up to postMessage: the flag is lowered, the
\* progress callback is replaced, the view is told to extract
startExtraction(type, pages) ==
  /\ jobs < MaxJobs
  /\ jobs' = jobs + 1
  /\ extractCancelled' = FALSE
  /\ extractProgressCallback' = jobs + 1
  /\ progress' = progress \cup {jobs + 1}
  /\ toView' = Append(toView, Msg(type, [job |-> jobs + 1, pages |-> pages]))
  /\ UNCHANGED <<viewExtractCancelled, extractions, cancelled>>

\* command pdf.extractAllText
hostExtractAllText ==
  /\ session = "open" /\ Idle
  /\ startExtraction("extractAllText", <<>>)
  /\ UNCHANGED <<navVars, peer, dragging, drawVars, dialogVars, session, resource, filePages,
                 globalState, hostVars, docVars, domVars, listVars, timerVars,
                 toHost>>

\* command pdf.extractRangeText up to showInputBox: the box opens, empty
hostExtractRangeText ==
  /\ session = "open" /\ Idle /\ loadEvents = 0 /\ jobs < MaxJobs
  /\ dialog' = Dialog("textRange", <<>>)
  /\ UNCHANGED <<extractVars, navVars, peer, dragging, drawVars, modal, currentHighlightColor, session,
                 resource, filePages, globalState, hostVars, docVars, domVars,
                 listVars, timerVars, toView, toHost>>

\* extractRangeText after showInputBox, which accepts an input only while
\* validateInput shows no message: no input or no page ends it, else the
\* pages are sent to the view
acceptTextRange ==
  /\ session = "open" /\ dialog.kind = "textRange"
  /\ validateRange(dialog.arg)
  /\ dialog' = NoDialog
  /\ LET input == dialog.arg
         pages == parsePageRange(input, TotalPages)
     IN IF input # <<>> /\ Len(pages) > 0
        THEN startExtraction("extractRangeText", pages)
        ELSE UNCHANGED <<extractVars, toView>>
  /\ UNCHANGED <<navVars, peer, dragging, drawVars, modal, currentHighlightColor, session,
                 resource, filePages, globalState, hostVars, docVars, domVars,
                 listVars, timerVars, toHost>>

\* token.onCancellationRequested: the user cancels the progress notice of
\* an extraction
cancelExtract ==
  /\ session = "open" /\ InFlight < MaxInFlight
  /\ \E job \in progress :
       /\ progress' = progress \ {job}
       /\ cancelled' = cancelled \cup {job}
  /\ extractCancelled' = TRUE
  /\ toView' = Append(toView, Msg("cancelExtract", None))
  /\ UNCHANGED <<extractProgressCallback, viewExtractCancelled, extractions,
                 jobs, navVars, peer, dragging, drawVars, dialogVars, session, resource,
                 filePages, globalState, hostVars, docVars, domVars, listVars,
                 timerVars, toHost>>

\* case 'extractProgress': the callback the host holds, if any, reports and
\* resolves its notice at the last page
HostExtractProgress ==
  /\ HostGets("extractProgress")
  /\ toHost' = Tail(toHost)
  /\ LET m == Head(toHost).arg
     IN progress' =
          IF extractProgressCallback # 0 /\ m.current >= m.total
          THEN progress \ {extractProgressCallback}
          ELSE progress
  /\ UNCHANGED <<extractCancelled, extractProgressCallback,
                 viewExtractCancelled, extractions, jobs, cancelled, navVars, peer, dragging,
                 drawVars, dialogVars, session, resource, filePages,
                 globalState, hostVars, docVars, domVars, listVars, timerVars,
                 toView>>

\* case 'textExtracted': handleExtractedText up to showQuickPick: the text
\* is dropped when the flag is up, else the user is asked what to do with it
handleExtractedText ==
  /\ HostGets("textExtracted")
  /\ toHost' = Tail(toHost)
  /\ extractProgressCallback' = 0
  /\ extractCancelled' = FALSE
  /\ dialog' =
       IF extractCancelled \/ Len(Head(toHost).arg.text) = 0 THEN dialog
       ELSE Dialog("extracted", Head(toHost).arg)
  /\ UNCHANGED <<progress, viewExtractCancelled, extractions, jobs, cancelled,
                 navVars, peer, dragging, drawVars, modal, currentHighlightColor, session,
                 resource, filePages, globalState, hostVars, docVars, domVars,
                 listVars, timerVars, toView>>

\* !PDFViewerApplication.pdfDocument: there is no document before the
\* viewer has one, and while a load is under way the viewer may have closed
\* the document it replaces or not
NoDocument ==
  IF pagesCount = 0 THEN {TRUE}
  ELSE IF loadEvents > 0 THEN {TRUE, FALSE}
  ELSE {FALSE}

\* case 'extractAllText': extractAllText() up to its first await
extractAllText ==
  /\ ViewGets("extractAllText")
  /\ toView' = Tail(toView)
  /\ \E missing \in NoDocument :
     IF missing
     THEN /\ toHost' = Append(toHost, Msg("extractError", None))
          /\ UNCHANGED extractions
     ELSE /\ toHost' =
               Append(toHost,
                      Msg("extractProgress",
                          [current |-> 0, total |-> pagesCount]))
          /\ extractions' =
               extractions \cup
                 {Extraction(Head(toView).arg.job, "all",
                             AllPages(pagesCount), 0)}
  /\ UNCHANGED <<extractCancelled, extractProgressCallback, progress,
                 viewExtractCancelled, jobs, cancelled, navVars, peer, dragging, drawVars,
                 dialogVars, session, resource, filePages, globalState,
                 hostVars, docVars, domVars, listVars, timerVars>>

\* case 'extractRangeText': extractRangeText(pages) up to its first await
extractRangeText ==
  /\ ViewGets("extractRangeText")
  /\ toView' = Tail(toView)
  /\ viewExtractCancelled' = FALSE
  /\ \E missing \in NoDocument :
     IF missing \/ Len(Head(toView).arg.pages) = 0
     THEN /\ toHost' = Append(toHost, Msg("extractError", None))
          /\ UNCHANGED extractions
     ELSE /\ extractions' =
               extractions \cup
                 {Extraction(Head(toView).arg.job, "range",
                             Head(toView).arg.pages, 0)}
          /\ UNCHANGED toHost
  /\ UNCHANGED <<extractCancelled, extractProgressCallback, progress, jobs,
                 cancelled, navVars, peer, dragging, drawVars, dialogVars, session, resource,
                 filePages, globalState, hostVars, docVars, domVars, listVars,
                 timerVars>>

\* case 'cancelExtract': cancelExtraction()
cancelExtraction ==
  /\ ViewGets("cancelExtract")
  /\ toView' = Tail(toView)
  /\ viewExtractCancelled' = TRUE
  /\ UNCHANGED <<extractCancelled, extractProgressCallback, progress,
                 extractions, jobs, cancelled, navVars, peer, dragging, drawVars, dialogVars,
                 session, resource, filePages, globalState, hostVars, docVars,
                 domVars, listVars, timerVars, toHost>>

\* the text of a page is there: the loop of extractAllText or
\* extractRangeText goes on from its await to the next one or to its end.
\* Only the loop of extractRangeText looks at the flag.
extractPage ==
  /\ session = "open" /\ InFlight < MaxInFlight
  /\ \E e \in extractions :
       LET done == e.done + 1
           total == Len(e.pages)
           report == Msg("extractProgress", [current |-> done, total |-> total])
       IN IF done = total
          THEN /\ toHost' =
                    Post2(toHost, report,
                          Msg("textExtracted",
                              [job |-> e.job, text |-> e.pages]))
               /\ extractions' = extractions \ {e}
          ELSE IF e.kind = "range" /\ viewExtractCancelled
          THEN /\ toHost' = Post2(toHost, report, Msg("extractError", None))
               /\ extractions' = extractions \ {e}
          ELSE /\ toHost' = Append(toHost, report)
               /\ extractions' =
                    (extractions \ {e}) \cup
                      {Extraction(e.job, e.kind, e.pages, done)}
  /\ UNCHANGED <<extractCancelled, extractProgressCallback, progress,
                 viewExtractCancelled, jobs, cancelled, navVars, peer, dragging, drawVars,
                 dialogVars, session, resource, filePages, globalState,
                 hostVars, docVars, domVars, listVars, timerVars, toView>>

(***************************************************************************)
(* Sticky notes                                                            *)
(***************************************************************************)
NoteColor == "#FFFACD"
NoteInputs == {<<"n">>}          \* what the user types into the input box
NoteEdits == {<<"e">>}           \* what the user types into a note
\* the places a note is put at or dragged to (left, top)
Positions == {<<120, 80>>, <<200, 150>>}
\* rect.width / 2 - 100, rect.height / 2 - 50 of the page container
PageCenter == <<120, 80>>

PersistedNote(content, color, page, x, y) ==
  [content |-> content, color |-> color, page |-> page, x |-> x, y |-> y]
ShownNote(el, content, color, page, x, y) ==
  [element |-> el, content |-> content, color |-> color, page |-> page,
   x |-> x, y |-> y]
\* a note element: its page container (while attached), its style.left and
\* style.top, the text of its content div
NoteEl(id, page, x, y, content, attached) ==
  [id |-> id, page |-> page, x |-> x, y |-> y, content |-> content,
   attached |-> attached]

\* document.querySelector('.page[data-page-number=...]')
PageContainer(p) == session = "open" /\ loadEvents = 0 /\ p \in 1..pagesCount

\* stickyNotes.findIndex(n => n.element === element), 0-based, -1 if none
FindIndex(list, id) ==
  LET hits == {i \in 1..Len(list) : list[i].element = id}
  IN IF hits = {} THEN 0 - 1
     ELSE (CHOOSE i \in hits : \A j \in hits : i <= j) - 1

\* command pdf.addStickyNote: the user enters the content
hostAddStickyNote ==
  /\ session = "open" /\ Idle
  /\ Len(stickyNotes) < MaxAnchors /\ Len(savedStickyNotes) < MaxAnchors
  /\ \E content \in NoteInputs :
       toView' = Append(toView, Msg("addStickyNoteAtSelection",
                                    [content |-> content, color |-> NoteColor]))
  /\ UNCHANGED <<toolVars, session, resource, filePages, globalState, hostVars,
                 docVars, domVars, listVars, timerVars, toHost>>

\* addStickyNoteAtSelection(content, color), with addStickyNote: without a
\* selection the note goes to the middle of the page, with one to the right
\* of it
addStickyNoteAtSelection ==
  /\ ViewGets("addStickyNoteAtSelection")
  /\ toView' = Tail(toView)
  /\ IF PageContainer(currentPageNumber)
       THEN \E pos \in (IF selection = NoSel THEN {PageCenter} ELSE Positions) :
              LET id == Fresh(1)[1]
                  typed == Head(toView).arg.content
                  content == IF typed # <<>> \/ selection = NoSel THEN typed
                             ELSE SelText(selection)
                  color == Head(toView).arg.color
                  page == currentPageNumber
              IN /\ noteEls' = noteEls \cup
                      {NoteEl(id, page, pos[1], pos[2], content, TRUE)}
                 /\ stickyNotes' =
                      Append(stickyNotes,
                             ShownNote(id, content, color, page, pos[1],
                             pos[2]))
                 /\ toHost' =
                      Append(toHost,
                             Msg("stickyNoteAdded",
                                 PersistedNote(content, color, page,
                                               pos[1], pos[2])))
       ELSE UNCHANGED <<noteEls, stickyNotes, toHost>>
  /\ UNCHANGED <<toolVars, session, resource, filePages, globalState, hostVars,
                 docVars, dom, selection, highlights, currentHighlightIndex,
                 annotations, comments, drawingAnnotations, timerVars>>

\* makeDraggable, dragMouseDown: the user presses the header of a note
dragMouseDown ==
  /\ session = "open" /\ Idle /\ dragging = 0
  /\ \E e \in noteEls : e.attached /\ dragging' = e.id
  /\ UNCHANGED <<askVars, drawVars, session, resource, filePages, globalState, hostVars,
                 docVars, domVars, listVars, timerVars, toView, toHost>>

\* makeDraggable, elementDrag: the pointer moves, the note follows
elementDrag ==
  /\ session = "open" /\ dragging # 0
  /\ \E e \in noteEls : \E pos \in Positions :
       /\ e.id = dragging /\ pos # <<e.x, e.y>>
       /\ noteEls' = (noteEls \ {e})
                        \cup {[e EXCEPT !.x = pos[1], !.y = pos[2]]}
  /\ UNCHANGED <<toolVars, session, resource, filePages, globalState, hostVars,
                 docVars, dom, selection, listVars, timerVars, toView, toHost>>

\* the note list with the place of entry index (0-based) taken from the
\* element's style, and the message that reports it
Placed(list, index, e) ==
  [list EXCEPT ![index + 1].x = e.x, ![index + 1].y = e.y]
PositionChanged(index, e) ==
  Msg("stickyNotePositionChanged", [index |-> index, x |-> e.x, y |-> e.y])

\* makeDraggable, closeDragElement: the user releases the note
closeDragElement ==
  /\ session = "open" /\ dragging # 0
  /\ dragging' = 0
  /\ LET idx == FindIndex(stickyNotes, dragging)
         e == CHOOSE e \in noteEls : e.id = dragging
     IN IF idx # 0 - 1
          THEN /\ stickyNotes' = Placed(stickyNotes, idx, e)
               /\ toHost' = Append(toHost, PositionChanged(idx, e))
          ELSE UNCHANGED <<stickyNotes, toHost>>
  /\ UNCHANGED <<askVars, drawVars, session, resource, filePages, globalState, hostVars,
                 docVars, domVars, highlights, currentHighlightIndex,
                 annotations, comments, drawingAnnotations, timerVars, toView>>

\* contentDiv.onblur: the user has edited the text of a note
contentBlur ==
  /\ session = "open" /\ Idle /\ dragging = 0
  /\ \E e \in noteEls : \E text \in NoteEdits :
       /\ e.attached /\ text # e.content
       /\ noteEls' = (noteEls \ {e}) \cup {[e EXCEPT !.content = text]}
       /\ LET idx == FindIndex(stickyNotes, e.id)
          IN IF idx # 0 - 1
               THEN /\ stickyNotes' =
                         [stickyNotes EXCEPT ![idx + 1].content = text]
                    /\ toHost' =
                         Append(toHost,
                                Msg("stickyNoteUpdated",
                                    [index |-> idx, content |-> text]))
               ELSE UNCHANGED <<stickyNotes, toHost>>
  /\ UNCHANGED <<toolVars, session, resource, filePages, globalState, hostVars,
                 docVars, dom, selection, highlights, currentHighlightIndex,
                 annotations, comments, drawingAnnotations, timerVars, toView>>

\* the user clicks the close button in the header of a note: the press and
\* the release reach dragMouseDown and closeDragElement, the click runs
\* closeBtn.onclick, which calls deleteStickyNote
closeBtnClick ==
  /\ session = "open" /\ Idle /\ dragging = 0
  /\ \E e \in noteEls :
       /\ e.attached
       /\ LET idx == FindIndex(stickyNotes, e.id)
          IN IF idx # 0 - 1
               THEN /\ noteEls' = noteEls \ {e}
                    /\ stickyNotes' = Splice(Placed(stickyNotes, idx, e), idx)
                    /\ toHost' =
                         Post2(toHost, PositionChanged(idx, e),
                               Msg("stickyNoteDeleted", Len(stickyNotes) - 1))
               ELSE UNCHANGED <<noteEls, stickyNotes, toHost>>
  /\ UNCHANGED <<toolVars, session, resource, filePages, globalState, hostVars,
                 docVars, dom, selection, highlights, currentHighlightIndex,
                 annotations, comments, drawingAnnotations, timerVars, toView>>

\* case 'stickyNoteAdded': addStickyNoteToStorage
HostStickyNoteAdded ==
  /\ HostGets("stickyNoteAdded")
  /\ toHost' = Tail(toHost)
  /\ savedStickyNotes' = Append(savedStickyNotes, Head(toHost).arg)
  /\ globalState' =
       saveAllAnnotations(globalState, resource, savedHighlights,
                          savedAnnotations, savedComments, savedStickyNotes',
                          savedDrawings)
  /\ UNCHANGED <<toolVars, session, resource, filePages, savedHighlights,
                 savedAnnotations, savedComments, savedDrawings, docVars,
                 domVars, listVars, timerVars, toView>>

\* updateStickyNoteInStorage: the list after the call
updateStickyNoteInStorage(list, index, content) ==
  IF index >= 0 /\ index < Len(list)
    THEN [list EXCEPT ![index + 1].content = content]
    ELSE list

\* a position update that writes the whole entry anew and loses its content
updateStickyNotePositionOnly(list, index, x, y) ==
  IF index >= 0 /\ index < Len(list)
    THEN [list EXCEPT ![index + 1].x = x, ![index + 1].y = y,
                      ![index + 1].content = <<>>]
    ELSE list

\* updateStickyNotePositionInStorage: the list after the call
updateStickyNotePositionInStorage(list, index, x, y) ==
  IF index >= 0 /\ index < Len(list)
    THEN [list EXCEPT ![index + 1].x = x, ![index + 1].y = y]
    ELSE list

\* saveStickyNotes, called when the index is one of the list
SavedNotes(gs, list, index) ==
  IF index >= 0 /\ index < Len(savedStickyNotes)
    THEN Update(gs, stickyNotesKey(resource), list)
    ELSE gs

\* case 'stickyNoteUpdated'
HostStickyNoteUpdated ==
  /\ HostGets("stickyNoteUpdated")
  /\ toHost' = Tail(toHost)
  /\ LET m == Head(toHost).arg
     IN /\ savedStickyNotes' =
             updateStickyNoteInStorage(savedStickyNotes, m.index, m.content)
        /\ globalState' = SavedNotes(globalState, savedStickyNotes', m.index)
  /\ UNCHANGED <<toolVars, session, resource, filePages, savedHighlights,
                 savedAnnotations, savedComments, savedDrawings, docVars,
                 domVars, listVars, timerVars, toView>>

\* case 'stickyNotePositionChanged'
HostStickyNotePositionChanged ==
  /\ HostGets("stickyNotePositionChanged")
  /\ toHost' = Tail(toHost)
  /\ LET m == Head(toHost).arg
     IN /\ savedStickyNotes' =
             updateStickyNotePositionInStorage(savedStickyNotes, m.index,
                                               m.x, m.y)
        /\ globalState' = SavedNotes(globalState, savedStickyNotes', m.index)
  /\ UNCHANGED <<toolVars, session, resource, filePages, savedHighlights,
                 savedAnnotations, savedComments, savedDrawings, docVars,
                 domVars, listVars, timerVars, toView>>

(***************************************************************************)
(* Drawings                                                                *)
(***************************************************************************)
DrawingTypes == {"rectangle", "freehand"}
DrawingColor == "#FF0000"
\* where the pointer is pressed, moved to and released, in canvas units
Points == {<<10, 10>>, <<40, 30>>}
\* where the pointer is pressed
PressPoints == {<<10, 10>>}

\* drawingData: the shape with its color and page
Drawing(shape, color, page) ==
  [type |-> shape.type, x |-> shape.x, y |-> shape.y, width |-> shape.width,
   height |-> shape.height, path |-> shape.path, color |-> color,
   page |-> page]
GeometryOf(d) == Geometry(d.type, d.x, d.y, d.width, d.height, d.path)

\* redrawAllDrawings: what it paints
PageDrawings(list, page) ==
  {GeometryOf(list[i]) : i \in {j \in 1..Len(list) : list[j].page = page}}

\* the canvas receives pointer events
Pointable == /\ session = "open"
             /\ drawingCanvas.attached /\ drawingCanvas.pointerEvents

\* command pdf.startDrawingMode: the user picks the type of shape
hostStartDrawingMode ==
  /\ session = "open" /\ Idle
  /\ \E type \in DrawingTypes :
       toView' = Append(toView, Msg("startDrawingMode",
                                    [drawingType |-> type,
                                     color |-> DrawingColor]))
  /\ UNCHANGED <<toolVars, session, resource, filePages, globalState, hostVars,
                 docVars, domVars, listVars, timerVars, toHost>>

\* startDrawingMode(type, color, strokeWidth)
startDrawingMode ==
  /\ ViewGets("startDrawingMode")
  /\ toView' = Tail(toView)
  /\ isDrawingMode' = TRUE
  /\ drawingType' = Head(toView).arg.drawingType
  /\ IF PageContainer(currentPageNumber)
       THEN /\ drawingCanvas' =
                 IF drawingCanvas = NoCanvas
                   THEN [page |-> currentPageNumber, attached |-> TRUE,
                         pointerEvents |-> TRUE]
                   ELSE drawingCanvas
            /\ painted' =
                 painted \cup PageDrawings(drawingAnnotations,
                 currentPageNumber)
            /\ toHost' = Append(toHost, Msg("drawingModeStarted",
                                            drawingType'))
       ELSE UNCHANGED <<drawingCanvas, painted, toHost>>
  /\ UNCHANGED <<askVars, dragging, isDrawing, startPoint, tempShape,
                 currentDrawingPath, session, resource, filePages, globalState,
                 hostVars, docVars, domVars, listVars, timerVars>>

\* command pdf.stopDrawingMode
hostStopDrawingMode ==
  /\ session = "open" /\ Idle
  /\ toView' = Append(toView, Msg("stopDrawingMode", None))
  /\ UNCHANGED <<toolVars, session, resource, filePages, globalState, hostVars,
                 docVars, domVars, listVars, timerVars, toHost>>

\* a stop that drops the shapes drawn so far
stopDrawingModeClears ==
  /\ ViewGets("stopDrawingMode")
  /\ toView' = Tail(toView)
  /\ isDrawingMode' = FALSE
  /\ drawingCanvas' =
       IF drawingCanvas = NoCanvas THEN NoCanvas
       ELSE [drawingCanvas EXCEPT !.pointerEvents = FALSE]
  /\ drawingAnnotations' = <<>>
  /\ toHost' = Append(toHost, Msg("drawingModeStopped", None))
  /\ UNCHANGED <<askVars, dragging, drawingType, isDrawing, startPoint, tempShape,
                 currentDrawingPath, painted, session, resource, filePages,
                 globalState, hostVars, docVars, domVars, highlights,
                 currentHighlightIndex, annotations, comments, stickyNotes,
                 timerVars>>

\* stopDrawingMode
stopDrawingMode ==
  /\ ViewGets("stopDrawingMode")
  /\ toView' = Tail(toView)
  /\ isDrawingMode' = FALSE
  /\ drawingCanvas' =
       IF drawingCanvas = NoCanvas THEN NoCanvas
       ELSE [drawingCanvas EXCEPT !.pointerEvents = FALSE]
  /\ toHost' = Append(toHost, Msg("drawingModeStopped", None))
  /\ UNCHANGED <<askVars, dragging, drawingType, isDrawing, startPoint, tempShape,
                 currentDrawingPath, painted, session, resource, filePages,
                 globalState, hostVars, docVars, domVars, listVars, timerVars>>

\* command pdf.clearDrawings
hostClearDrawings ==
  /\ session = "open" /\ Idle
  /\ toView' = Append(toView, Msg("clearDrawings", None))
  /\ UNCHANGED <<toolVars, session, resource, filePages, globalState, hostVars,
                 docVars, domVars, listVars, timerVars, toHost>>

\* clearDrawings
clearDrawings ==
  /\ ViewGets("clearDrawings")
  /\ toView' = Tail(toView)
  /\ drawingAnnotations' =
       SelectSeq(drawingAnnotations, LAMBDA d : d.page # currentPageNumber)
  /\ painted' = IF drawingCanvas = NoCanvas THEN painted ELSE {}
  /\ toHost' =
       Append(toHost,
              Msg("drawingsCleared",
                  Len(drawingAnnotations) - Len(drawingAnnotations')))
  /\ UNCHANGED <<askVars, dragging, isDrawingMode, drawingType, drawingCanvas, isDrawing,
                 startPoint, tempShape, currentDrawingPath, session, resource,
                 filePages, globalState, hostVars, docVars, domVars, highlights,
                 currentHighlightIndex, annotations, comments, stickyNotes,
                 timerVars>>

\* drawingCanvas.onmousedown
canvasMouseDown ==
  /\ Pointable /\ isDrawingMode /\ ~isDrawing /\ Idle
  /\ Len(drawingAnnotations) < MaxAnchors /\ Len(savedDrawings) < MaxAnchors
  /\ isDrawing' = TRUE
  /\ \E pt \in PressPoints :
       /\ startPoint' = pt
       /\ currentDrawingPath' =
            IF drawingType = "freehand" THEN <<pt>> ELSE currentDrawingPath
  /\ UNCHANGED <<askVars, dragging, isDrawingMode, drawingType, drawingCanvas, tempShape,
                 painted, session, resource, filePages, globalState, hostVars,
                 docVars, domVars, listVars, timerVars, toView, toHost>>

\* drawingCanvas.onmousemove
canvasMouseMove ==
  /\ Pointable /\ isDrawing /\ isDrawingMode
  /\ drawingType = "freehand" => Len(currentDrawingPath) < MaxPath
  /\ \E pt \in Points :
       /\ currentDrawingPath' =
            IF drawingType = "freehand" THEN Append(currentDrawingPath, pt)
            ELSE currentDrawingPath
       /\ tempShape' =
            IF drawingType = "freehand"
              THEN Geometry("freehand", 0, 0, 0, 0, currentDrawingPath')
              ELSE Geometry("rectangle", startPoint[1], startPoint[2],
                            pt[1] - startPoint[1], pt[2] - startPoint[2], <<>>)
       /\ painted' =
            PageDrawings(drawingAnnotations, currentPageNumber)
              \cup {tempShape'}
  /\ UNCHANGED <<askVars, dragging, isDrawingMode, drawingType, drawingCanvas, isDrawing,
                 startPoint, session, resource, filePages, globalState,
                 hostVars, docVars, domVars, listVars, timerVars, toView,
                 toHost>>

\* drawingCanvas.onmouseup
canvasMouseUp ==
  /\ Pointable /\ isDrawing /\ isDrawingMode
  /\ isDrawing' = FALSE
  /\ IF tempShape # NoShape
       THEN LET drawingData ==
                  Drawing(tempShape, DrawingColor, currentPageNumber)
            IN /\ drawingAnnotations' = Append(drawingAnnotations, drawingData)
               /\ toHost' = Append(toHost, Msg("drawingAdded", drawingData))
               /\ tempShape' = NoShape
       ELSE UNCHANGED <<drawingAnnotations, toHost, tempShape>>
  /\ UNCHANGED <<askVars, dragging, isDrawingMode, drawingType, drawingCanvas,
                 startPoint,
                 currentDrawingPath, painted, session, resource, filePages,
                 globalState, hostVars, docVars, domVars, highlights,
                 currentHighlightIndex, annotations, comments, stickyNotes,
                 timerVars, toView>>

\* drawingCanvas.onmouseleave
canvasMouseLeave ==
  /\ Pointable /\ isDrawing
  /\ isDrawing' = FALSE
  /\ UNCHANGED <<askVars, dragging, isDrawingMode, drawingType, drawingCanvas,
                 startPoint,
                 tempShape, currentDrawingPath, painted, session, resource,
                 filePages, globalState, hostVars, docVars, domVars, listVars,
                 timerVars, toView, toHost>>

\* case 'drawingAdded': addDrawingToStorage
HostDrawingAdded ==
  /\ HostGets("drawingAdded")
  /\ toHost' = Tail(toHost)
  /\ savedDrawings' = Append(savedDrawings, Head(toHost).arg)
  /\ globalState' =
       saveAllAnnotations(globalState, resource, savedHighlights,
                          savedAnnotations, savedComments, savedStickyNotes,
                          savedDrawings')
  /\ UNCHANGED <<toolVars, session, resource, filePages, savedHighlights,
                 savedAnnotations, savedComments, savedStickyNotes, docVars,
                 domVars, listVars, timerVars, toView>>

(***************************************************************************)
(* Restore of sticky notes and drawings                                    *)
(***************************************************************************)
\* case 'restoreAllAnnotations': restoreAllAnnotations(data), for a message
\* that holds the sticky notes and the drawings stored for the document.
\* Each note goes through addStickyNote(x, y, content, color), which puts it
\* on the page the viewer shows and reports it as added; the drawings take
\* the place of the view's list and are painted if there is a canvas.
restoreAllAnnotations ==
  /\ session = "open" /\ Idle /\ dragging = 0
  /\ stickyNotes = <<>> /\ drawingAnnotations = <<>>
  /\ LET notes == globalState[stickyNotesKey(resource)]
         drawings == globalState[drawingsKey(resource)]
         page == currentPageNumber
         ids == Fresh(Len(notes))
     IN /\ Len(notes) + Len(drawings) > 0
        /\ IF PageContainer(page)
             THEN /\ noteEls' =
                       noteEls \cup
                         {NoteEl(ids[k], page, notes[k].x, notes[k].y,
                                 notes[k].content, TRUE) : k \in 1..Len(notes)}
                  /\ stickyNotes' =
                       [k \in 1..Len(notes) |->
                          ShownNote(ids[k], notes[k].content, notes[k].color,
                                    page, notes[k].x, notes[k].y)]
                  /\ toHost' =
                       Append(toHost \o
                                [k \in 1..Len(notes) |->
                                   Msg("stickyNoteAdded",
                                       PersistedNote(notes[k].content,
                                                     notes[k].color, page,
                                                     notes[k].x, notes[k].y))],
                              Msg("annotationsRestored", None))
             ELSE /\ toHost' =
                       Append(toHost \o
                                [k \in 1..Len(notes) |->
                                   Msg("stickyNoteError", None)],
                              Msg("annotationsRestored", None))
                  /\ UNCHANGED <<noteEls, stickyNotes>>
        /\ drawingAnnotations' = drawings
        /\ painted' =
             IF drawingCanvas # NoCanvas
               THEN painted \cup PageDrawings(drawings, page)
               ELSE painted
  /\ UNCHANGED <<askVars, dragging, isDrawingMode, drawingType, drawingCanvas,
                 isDrawing, startPoint, tempShape, currentDrawingPath,
                 session, resource, filePages, globalState, hostVars, docVars,
                 dom, selection, highlights, currentHighlightIndex,
                 annotations, comments, timerVars, toView>>

(***************************************************************************)
(* Capture: one preview of a document without stored anchors; the user     *)
(* captures and lists highlights, and clears them all.                     *)
(***************************************************************************)
NextCapture ==
  \/ \E doc \in Docs : OpenPreview(doc)
  \/ DocumentLoaded
  \/ \E p \in Pages : RenderTextLayer(p)
  \/ \E p \in Pages : PageChange(p)
  \/ hostHighlightSelection(Selections)
  \/ HostHighlightAdded
  \/ HostHighlightsCleared
  \/ HostRequestStoredHighlights
  \/ hostShowHighlightsList
  \/ handleHighlightsSummary
  \/ dismissDialog
  \/ hostClearAllHighlights
  \/ answerClearHighlights
  \/ HostNotice
  \/ highlightSelection
  \/ getHighlightsSummary
  \/ clearAllHighlights

SpecCapture == Init /\ [][NextCapture]_vars

\* the capture step of highlightSelection: it consumed the command and
\* appended to the view list
CaptureStep ==
  /\ ViewGets("highlightSelection") /\ toView' = Tail(toView)
  /\ Len(highlights') = Len(highlights) + 1
\* a summary line as the claim words it: the first 50 characters, and an
\* ellipsis when the text is longer
Cut(text) ==
  IF Len(text) > SummaryLen THEN SubSeq(text, 1, SummaryLen) \o Ellipsis
  ELSE text

\* C5: after highlightSelection has appended anchor a (the record it posts
\* to the host), the last entry of the summary of the view list holds a.text
\* cut to 50 characters, followed by an ellipsis when a.text is longer, and
\* carries the (1-based) position of a in the list.
C5_SummaryRoundTrip ==
  [][CaptureStep =>
       LET a == toHost'[Len(toHost')].arg
           summary == HighlightsSummary(highlights')
           last == summary[Len(summary)]
       IN /\ toHost'[Len(toHost')].type = "highlightAdded"
          /\ Len(summary) = Len(highlights) + 1
          /\ last.text = Cut(a.text)
          /\ last.index = Len(highlights')
          /\ SubSeq(summary, 1, Len(highlights)) = HighlightsSummary(highlights)
    ]_vars

\* a summary on its way to the host whose last line is a cut text with the
\* ellipsis, after a short one
C5_Witness ==
  /\ toHost # <<>> /\ Head(toHost).type = "highlightsSummary"
  /\ Len(Head(toHost).arg) = 2
  /\ Head(toHost).arg[1].text = The
  /\ Head(toHost).arg[2].text = Sub(LongText, 0, SummaryLen) \o Ellipsis
  /\ Len(highlights[2].text) = SummaryLen + 1

(***************************************************************************)
(* Text: the user runs the text-bound capture commands on selections with  *)
(* and without text.                                                       *)
(***************************************************************************)
NextText ==
  \/ \E doc \in Docs : OpenPreview(doc)
  \/ DocumentLoaded
  \/ \E p \in Pages : RenderTextLayer(p)
  \/ hostHighlightSelection(BlankSelections)
  \/ hostAnnotateSelection(BlankSelections)
  \/ hostAddCommentToSelection(BlankSelections)
  \/ highlightSelection
  \/ annotateSelection
  \/ addCommentToSelection
  \/ HostHighlightAdded
  \/ HostAnnotationAdded
  \/ HostCommentAdded
  \/ HostRequestStoredHighlights
  \/ HostNotice

SpecText == Init /\ [][NextText]_vars

\* the view handles one of the text-bound capture commands
TextCaptureCommands ==
  {"highlightSelection", "addCommentToSelection"}
    \cup {CommandOf[type] : type \in AnnotationTypes}
TextCaptureStep ==
  /\ session = "open" /\ toView # <<>> /\ toView' = Tail(toView)
  /\ Head(toView).type \in TextCaptureCommands

\* C10: a text-bound capture (highlight, underline/strikethrough/squiggly,
\* comment) run on an empty or whitespace-only selection changes no state:
\* no marker, no entry in a view list, nothing in the host's lists or in
\* the store; the view only reports that there is no selection, and the
\* host changes nothing when it gets that report.
C10_BlankSelectionNoChange ==
  [][/\ (TextCaptureStep /\ Blank(SelText(selection)))
        => /\ UNCHANGED <<dom, noteEls, selection, listVars, toolVars, hostVars,
                           globalState>>
           /\ toHost' = Append(toHost, Msg("noSelection", None))
     /\ (HostGets("noSelection") /\ toHost' = Tail(toHost))
        => UNCHANGED <<domVars, listVars, toolVars, hostVars, globalState,
                       toView>>
    ]_vars

\* a highlight is in place and stored; a capture on the whitespace between
\* two words has been answered with the report, and nothing was added
C10_Witness ==
  /\ selection = Sel(1, 3, 4)
  /\ HostGets("noSelection")
  /\ Len(highlights) = 1 /\ Len(savedHighlights) = 1
  /\ annotations = <<>> /\ comments = <<>>
  /\ Cardinality(UNION {ElementsIn(dom[p]) : p \in Pages}) = 3

(***************************************************************************)
(* Restore: a document whose highlights were stored by an earlier session  *)
(* is opened, reloaded when the file changes, and its highlights are       *)
(* re-anchored.                                                            *)
(***************************************************************************)
\* three highlights with different texts
Stored3 ==
  << Persisted(The, Yellow, 1), Persisted(<<"a">>, Yellow, 1),
     Persisted(Sub(LongText, 0, SummaryLen), Yellow, 2) >>
StoredLists ==
  { << Persisted(The, Yellow, 1) >>,
    << Persisted(The, Yellow, 1), Persisted(The, Yellow, 1) >>,
    \* "ath" is the text of no single text node of page 1
    << Persisted(<<"a", "t", "h">>, Yellow, 1), Persisted(<<"a">>, Yellow, 1) >>,
    \* page 2 holds no "the"; it is no page at all once the file has one page
    << Persisted(The, Yellow, 2), Persisted(The, Yellow, 1) >>,
    Stored3 }

InitStored ==
  \E stored \in StoredLists : \E doc \in Docs :
    Started([k \in Keys |-> IF k = getHighlightsKey(doc) THEN stored ELSE <<>>])

NextRestore ==
  \/ \E doc \in Docs : OpenPreview(doc)
  \/ ClosePreview
  \/ \E n \in Pages : FileChanged(n)
  \/ ViewReload
  \/ DocumentLoaded
  \/ \E p \in Pages : RenderTextLayer(p)
  \/ HostRequestStoredHighlights
  \/ HostNotice
  \/ restoreHighlights
  \/ RestoreTimer
  \/ restoreSingleHighlight

SpecRestore == InitStored /\ [][NextRestore]_vars

\* nothing is on its way: no message, no load event, no timer
Quiet == session = "open" /\ Settled /\ toView = <<>> /\ toHost = <<>>
\* the marker elements of class cls in the text layers
Markers(cls) ==
  {e \in UNION {ElementsIn(dom[p]) : p \in Pages} : e.cls = cls}

\* C4: restoring the same stored list more than once (once per
\* 'documentloaded' event, once more after a reload) leaves as many markers
\* and as many view-list entries as restoring it once: never more than one
\* per stored highlight once every restore has run.
C4_RestoreIdempotent ==
  Quiet => /\ Len(highlights) <= Len(savedHighlights)
           /\ Cardinality(Markers("pdf-highlight")) <= Len(savedHighlights)

\* the timer step of restoreSingleHighlight and the highlight it restores
SingleStep ==
  /\ session = "open" /\ session' = "open"
  /\ singleTimers # <<>> /\ singleTimers' = Tail(singleTimers)
Anchor == Head(singleTimers)
\* what the view shows and holds, and what it has told the host
Rendering == <<dom, noteEls, highlights, annotations, comments, stickyNotes,
               drawingAnnotations, currentHighlightIndex, toHost>>
\* some text node of the anchor's page holds the anchor's text
Anchorable ==
  /\ Anchor.page \in Pages /\ Anchor.page <= pagesCount
  /\ \E k \in 1..Len(dom[Anchor.page]) :
       \E i \in 0..(Len(dom[Anchor.page][k].txt) - Len(Anchor.text)) :
         Sub(dom[Anchor.page][k].txt, i, i + Len(Anchor.text)) = Anchor.text

\* C7: restoring an anchor whose page is greater than the document's page
\* count creates no marker and no view-list entry and reports no error; the
\* other anchors of the list keep their timers, and each whose text is in a
\* text node of its page is restored: one more view-list entry, one more
\* marker.
C7_SkipsPagePastEnd ==
  [][SingleStep =>
       /\ Anchor.page > pagesCount => UNCHANGED Rendering
       /\ Anchorable =>
            /\ Len(highlights') = Len(highlights) + 1
            /\ highlights'[Len(highlights')].text = Anchor.text
            /\ highlights'[Len(highlights')].page = Anchor.page
            /\ Cardinality(Markers("pdf-highlight")')
                 = Cardinality(Markers("pdf-highlight")) + 1
    ]_vars

\* the file has one page, the first stored highlight is on page 2: only the
\* second one has been restored
C7_Witness ==
  /\ Quiet /\ pagesCount = 1
  /\ savedHighlights = << Persisted(The, Yellow, 2), Persisted(The, Yellow, 1) >>
  /\ Len(highlights) = 1 /\ highlights[1].page = 1
  /\ Cardinality(Markers("pdf-highlight")) = 1

\* C8: restoring an anchor whose text is in no text node of its (rendered)
\* page creates no marker and no view-list entry and reports no error.
C8_GracefulMiss ==
  [][(SingleStep /\ ~Anchorable) => UNCHANGED Rendering]_vars

\* page 1 is rendered, "ath" spans two text nodes and was not restored, the
\* "a" after it was
C8_Witness ==
  /\ Quiet /\ pagesCount = NumPages
  /\ savedHighlights[1].text = <<"a", "t", "h">>
  /\ Len(highlights) = 1 /\ highlights[1].text = <<"a">>
  /\ TextContent(dom[1]) = Concat(PageText[1])
  /\ Cardinality(Markers("pdf-highlight")) = 1

(***************************************************************************)
(* Notes: one preview; the user adds sticky notes, drags them, edits them  *)
(* and closes them.                                                        *)
(***************************************************************************)
NextNotes ==
  \/ \E doc \in Docs : OpenPreview(doc)
  \/ DocumentLoaded
  \/ HostRequestStoredHighlights
  \/ \E p \in Pages : PageChange(p)
  \/ hostAddStickyNote
  \/ addStickyNoteAtSelection
  \/ dragMouseDown
  \/ elementDrag
  \/ closeDragElement
  \/ contentBlur
  \/ closeBtnClick
  \/ HostStickyNoteAdded
  \/ HostStickyNoteUpdated
  \/ HostStickyNotePositionChanged
  \/ HostNotice

SpecNotes == Init /\ [][NextNotes]_vars

\* the anchors the view holds, as the records the host stores for them
LiveHighlights ==
  [i \in 1..Len(highlights) |->
     Persisted(highlights[i].text, highlights[i].color, highlights[i].page)]
LiveAnnotations ==
  [i \in 1..Len(annotations) |->
     PersistedAnnotation(annotations[i].type, annotations[i].text,
                         annotations[i].color, annotations[i].page)]
LiveComments ==
  [i \in 1..Len(comments) |->
     PersistedComment(comments[i].text, comments[i].comment,
                      comments[i].color, comments[i].page)]
LiveNotes ==
  [i \in 1..Len(stickyNotes) |->
     PersistedNote(stickyNotes[i].content, stickyNotes[i].color,
                   stickyNotes[i].page, stickyNotes[i].x, stickyNotes[i].y)]
\* nothing is on its way and no gesture is under way
AtRest == Quiet /\ dragging = 0 /\ ~isDrawing

\* C2: for every kind, once a delete made in the view has been handled, the
\* persisted list of that kind holds the anchors the view still holds and
\* no other: a list or a restore issued then does not contain the deleted
\* anchor.
C2_DeleteReachesStore ==
  AtRest =>
    /\ globalState[getHighlightsKey(resource)] = LiveHighlights
    /\ globalState[annotationsKey(resource)] = LiveAnnotations
    /\ globalState[commentsKey(resource)] = LiveComments
    /\ globalState[stickyNotesKey(resource)] = LiveNotes
    /\ globalState[drawingsKey(resource)] = drawingAnnotations

(***************************************************************************)
(* Session: sticky notes are added and dragged; the preview is closed and  *)
(* opened again, the file changes on disk and is reloaded.                 *)
(***************************************************************************)
NextSession ==
  \/ \E doc \in Docs : OpenPreview(doc)
  \/ ClosePreview
  \/ \E n \in Pages : FileChanged(n)
  \/ ViewReload
  \/ DocumentLoaded
  \/ HostRequestStoredHighlights
  \/ hostAddStickyNote
  \/ addStickyNoteAtSelection
  \/ dragMouseDown
  \/ elementDrag
  \/ closeDragElement
  \/ HostStickyNoteAdded
  \/ HostStickyNotePositionChanged

SpecSession == Init /\ [][NextSession]_vars

\* every record of persisted is in list
Contains(list, persisted) ==
  \A i \in 1..Len(persisted) : \E j \in 1..Len(list) : list[j] = persisted[i]

\* C1: whenever a preview of a document is open, the host's list of each
\* kind contains every anchor persisted for the document under that kind:
\* what an earlier session persisted has been loaded again.
C1_OutlivesSession ==
  session = "open" =>
    /\ Contains(savedHighlights, globalState[getHighlightsKey(resource)])
    /\ Contains(savedAnnotations, globalState[annotationsKey(resource)])
    /\ Contains(savedComments, globalState[commentsKey(resource)])
    /\ Contains(savedStickyNotes, globalState[stickyNotesKey(resource)])
    /\ Contains(savedDrawings, globalState[drawingsKey(resource)])

\* where the note of the claim is dragged to
Dropped == <<200, 150>>

\* C9: a sticky note whose persisted record holds the place it was dragged
\* to, (200, 150), is rendered there on its page whenever the document is
\* loaded and nothing is on its way, also after a reload.
C9_PositionSurvivesReload ==
  AtRest =>
    LET persisted == globalState[stickyNotesKey(resource)]
    IN \A i \in 1..Len(persisted) :
         <<persisted[i].x, persisted[i].y>> = Dropped =>
           \E e \in noteEls :
             /\ e.attached /\ e.page = persisted[i].page
             /\ <<e.x, e.y>> = Dropped

(***************************************************************************)
(* Draw: one preview; the user draws shapes on the pages and clears them.  *)
(***************************************************************************)
NextDraw ==
  \/ \E doc \in Docs : OpenPreview(doc)
  \/ DocumentLoaded
  \/ HostRequestStoredHighlights
  \/ \E p \in Pages : PageChange(p)
  \/ hostStartDrawingMode
  \/ startDrawingMode
  \/ hostStopDrawingMode
  \/ stopDrawingMode
  \/ hostClearDrawings
  \/ clearDrawings
  \/ canvasMouseDown
  \/ canvasMouseMove
  \/ canvasMouseUp
  \/ canvasMouseLeave
  \/ HostDrawingAdded
  \/ HostNotice

SpecDraw == Init /\ [][NextDraw]_vars

\* C6: a clear-all empties the whole list of its kind: the step of the view
\* that carries it out leaves the view list without an anchor on any page,
\* and the step of the host that handles its report leaves the host's list
\* and the persisted list empty.
C6_ClearAllEmpties ==
  [][/\ (ViewGets("clearAllHighlights") /\ toView' = Tail(toView))
        => highlights' = <<>>
     /\ (HostGets("highlightsCleared") /\ toHost' = Tail(toHost))
        => /\ savedHighlights' = <<>>
           /\ globalState'[getHighlightsKey(resource)] = <<>>
     /\ (ViewGets("clearDrawings") /\ toView' = Tail(toView))
        => drawingAnnotations' = <<>>
     /\ (HostGets("drawingsCleared") /\ toHost' = Tail(toHost))
        => /\ savedDrawings' = <<>>
           /\ globalState'[drawingsKey(resource)] = <<>>
    ]_vars

(***************************************************************************)
(* Delete: the stored highlights of a document are re-anchored, then the   *)
(* user deletes some of them, or all, from the list of highlights.         *)
(***************************************************************************)
NextDelete ==
  \/ \E doc \in Docs : OpenPreview(doc)
  \/ DocumentLoaded
  \/ \E p \in Pages : RenderTextLayer(p)
  \/ HostRequestStoredHighlights
  \/ restoreHighlights
  \/ RestoreTimer
  \/ restoreSingleHighlight
  \/ hostShowHighlightsList
  \/ getHighlightsSummary
  \/ handleHighlightsSummary
  \/ pickHighlight
  \/ pickHighlightAction
  \/ dismissDialog
  \/ answerClearHighlights
  \/ jumpToHighlightIndex
  \/ removeHighlight
  \/ clearAllHighlights
  \/ HostHighlightRemovedWithData
  \/ HostHighlightsCleared
  \/ HostNotice

SpecDelete == InitStored /\ [][NextDelete]_vars

\* new is old without its entry at the 0-based index: the entries before it
\* stay, the entries after it move down by one
RemovedAt(old, new, index) ==
  /\ Len(new) = Len(old) - 1
  /\ \A j \in 1..Len(new) : new[j] = IF j <= index THEN old[j] ELSE old[j + 1]

\* C3: deleting by index removes exactly the entry at that index and moves
\* the entries after it down by one, in the view list (removeHighlight) and
\* in the host's list and its persisted copy (removeHighlightFromStorage);
\* the lists of the other kinds stay as they are.
C3_DeleteByIndex ==
  [][/\ (/\ ViewGets("removeHighlight") /\ toView' = Tail(toView)
          /\ Head(toView).arg \in 0..(Len(highlights) - 1))
        => /\ RemovedAt(highlights, highlights', Head(toView).arg)
           /\ UNCHANGED <<annotations, comments, stickyNotes,
                           drawingAnnotations, hostVars, globalState>>
     /\ (/\ HostGets("highlightRemovedWithData") /\ toHost' = Tail(toHost)
          /\ Head(toHost).arg \in 0..(Len(savedHighlights) - 1))
        => /\ RemovedAt(savedHighlights, savedHighlights', Head(toHost).arg)
           /\ globalState'[getHighlightsKey(resource)] = savedHighlights'
           /\ UNCHANGED <<savedAnnotations, savedComments, savedStickyNotes,
                           savedDrawings, listVars>>
    ]_vars

\* of [A0, A1, A2] the entry at index 1 has been deleted in the view and in
\* the host, leaving [A0, A2]; the view has deleted at index 1 again, which
\* removed A2, and the host is about to
C3_Witness ==
  /\ HostGets("highlightRemovedWithData") /\ Head(toHost).arg = 1
  /\ savedHighlights = << Stored3[1], Stored3[3] >>
  /\ globalState[getHighlightsKey(resource)] = savedHighlights
  /\ Len(highlights) = 1 /\ highlights[1].text = Stored3[1].text

(***************************************************************************)
(* Indices: stored highlights are re-anchored, comments are added, and     *)
(* the user deletes, edits and jumps by index from the list of highlights  *)
(* and from the popup of a comment.                                        *)
(***************************************************************************)
NextIndex ==
  \/ \E doc \in Docs : OpenPreview(doc)
  \/ DocumentLoaded
  \/ \E p \in Pages : RenderTextLayer(p)
  \/ HostRequestStoredHighlights
  \/ restoreHighlights
  \/ RestoreTimer
  \/ restoreSingleHighlight
  \/ hostShowHighlightsList
  \/ hostShowHighlightsListAgain
  \/ getHighlightsSummary
  \/ handleHighlightsSummary
  \/ pickHighlight
  \/ pickHighlightAction
  \/ dismissDialog
  \/ answerClearHighlights
  \/ jumpToHighlightIndex
  \/ removeHighlight
  \/ clearAllHighlights
  \/ HostHighlightRemovedWithData
  \/ HostHighlightsCleared
  \/ hostAddCommentToSelection(Selections)
  \/ addCommentToSelection
  \/ HostCommentAdded
  \/ iconClick
  \/ HostShowComment
  \/ pickCommentAction
  \/ answerEditComment
  \/ deleteComment
  \/ editComment
  \/ jumpToComment
  \/ HostNotice

\* one highlight was stored by an earlier session
InitIndex ==
  \E doc \in Docs :
    Started([k \in Keys |->
               IF k = getHighlightsKey(doc)
                 THEN << Persisted(The, Yellow, 1) >> ELSE <<>>])

SpecIndex == InitIndex /\ [][NextIndex]_vars

\* index is no index of list
OutOfRange(list, index) == index < 0 \/ index >= Len(list)

\* C11: a delete or an update asked for with an index outside
\* 0..length-1 changes nothing: in the view, removeHighlight, deleteComment
\* and editComment leave the lists and the markers as they are; in the
\* host, the removal of a highlight and the delete and edit of a comment
\* leave the host's lists and what is persisted as they are.
C11_OutOfRangeIgnored ==
  [][/\ (/\ ViewGets("removeHighlight") /\ toView' = Tail(toView)
          /\ OutOfRange(highlights, Head(toView).arg))
        => UNCHANGED <<listVars, dom, hostVars, globalState>>
     /\ (/\ ViewGets("deleteComment") /\ toView' = Tail(toView)
          /\ OutOfRange(comments, Head(toView).arg))
        => UNCHANGED <<listVars, dom, hostVars, globalState>>
     /\ (/\ ViewGets("editComment") /\ toView' = Tail(toView)
          /\ OutOfRange(comments, Head(toView).arg.index))
        => UNCHANGED <<listVars, dom, hostVars, globalState>>
     /\ (/\ HostGets("highlightRemovedWithData") /\ toHost' = Tail(toHost)
          /\ OutOfRange(savedHighlights, Head(toHost).arg))
        => UNCHANGED <<hostVars, globalState, listVars, dom>>
     /\ (/\ session = "open" /\ dialog.kind \in {"comment", "editComment"}
          /\ Len(toView') = Len(toView) + 1
          /\ Head(toView').type \in {"deleteComment", "editComment"}
          /\ OutOfRange(savedComments, dialog.arg.index))
        => UNCHANGED <<hostVars, globalState, listVars, dom>>
    ]_vars

\* the one comment has been deleted from its popup, in the host and in the
\* view; a second popup of it, opened before, has been answered 'delete'
\* too: the host has spliced its empty list at index 0, the view is about
\* to be asked to delete at index 0 of its empty list
C11_Witness ==
  /\ ViewGets("deleteComment") /\ Head(toView).arg = 0
  /\ comments = <<>> /\ savedComments = <<>>
  /\ globalState[commentsKey(resource)] = <<>>
  /\ \E k \in 1..Len(toHost) : toHost[k].type = "commentDeleted"


(***************************************************************************)
(* Capture with a range the browser cannot wrap                            *)
(***************************************************************************)
MarkerClasses ==
  {"pdf-highlight", "pdf-comment-highlight"}
    \cup {ClassOf[type] : type \in AnnotationTypes}
\* the markers of all kinds in the text layers d
AllMarkers(d) ==
  {e \in UNION {ElementsIn(d[p]) : p \in Pages} : e.cls \in MarkerClasses}
AddTypes == {"highlightAdded", "annotationAdded", "commentAdded"}
CaptureErrors == {"highlightError", "annotationError", "commentError"}

\* C12: when a capture on a selection with text ends with no marker in the
\* page (the wrap failed and, where there is a fallback, it failed too),
\* no entry is added to a view list and the one message sent to the host
\* is an error report, not an add; the host stores nothing when it gets
\* that report.
C12_NoAnchorWithoutMarker ==
  [][/\ (/\ TextCaptureStep /\ ~Blank(SelText(selection))
          /\ AllMarkers(dom') \subseteq AllMarkers(dom))
        => /\ UNCHANGED <<listVars, hostVars, globalState>>
           /\ Len(toHost') = Len(toHost) + 1
           /\ toHost'[Len(toHost')].type \in CaptureErrors
     /\ (/\ session = "open" /\ toHost # <<>> /\ toHost' = Tail(toHost)
          /\ Head(toHost).type \in CaptureErrors)
        => UNCHANGED <<hostVars, globalState, listVars>>
    ]_vars

\* a highlight on a selection over two chunks has failed in the fallback
\* after the contents were extracted: the text is gone from the page, the
\* host is about to get the error report, and nothing is listed or stored
C12_Witness ==
  /\ HostGets("highlightError")
  /\ AllMarkers(dom) = {}
  /\ TextContent(dom[1]) # TextContent(PristinePage(1))
  /\ highlights = <<>> /\ savedHighlights = <<>>
  /\ \A k \in Keys : globalState[k] = <<>>


(***************************************************************************)
(* Color: the user sets the color of the highlights, from the offered      *)
(* colors or by typing one, and highlights with it.                        *)
(***************************************************************************)
ColorSelections == { Sel(1, 0, 3) }
NextColor ==
  \/ \E doc \in Docs : OpenPreview(doc)
  \/ DocumentLoaded
  \/ \E p \in Pages : RenderTextLayer(p)
  \/ hostSetHighlightColor
  \/ pickColor
  \/ typeColor
  \/ acceptColor
  \/ dismissDialog
  \/ hostHighlightSelection(ColorSelections)
  \/ highlightSelection
  \/ HostHighlightAdded
  \/ HostRequestStoredHighlights

SpecColor == Init /\ [][NextColor]_vars

\* value is # and six hexadecimal digits
RRGGBB(value) ==
  /\ Len(value) = 7
  /\ value[1] = "#"
  /\ \A i \in 2..7 : value[i] \in HexDigit

\* C13: a custom color is taken only if it is #RRGGBB. While the input box
\* holds anything else (such as "red") it shows the message and Enter
\* leaves it open and the current color as it was; whenever the current
\* color changes from the input box, it becomes what the box holds and
\* that is #RRGGBB; the current color is #RRGGBB at all times, and so is
\* the color of every highlight made.
C13_CustomColorValidated ==
  [][/\ (dialog.kind = "customColor" /\ ~RRGGBB(dialog.arg.value))
        => /\ dialog.arg.message # "null"
           /\ UNCHANGED currentHighlightColor
           /\ dialog'.kind = "customColor" \/ dialog' = NoDialog
     /\ (dialog.kind = "customColor"
          /\ currentHighlightColor' # currentHighlightColor)
        => currentHighlightColor' = dialog.arg.value
     /\ RRGGBB(currentHighlightColor')
     /\ \A k \in 1..Len(highlights') : RRGGBB(highlights'[k].color)
    ]_vars

\* the user has typed a color in lower-case digits and pressed Enter, and
\* a highlight made with it is in the page and in the list
C13_Witness ==
  /\ currentHighlightColor = << "#", "a", "b", "c", "d", "e", "f" >>
  /\ dialog = NoDialog
  /\ Len(highlights) = 1 /\ highlights[1].color = currentHighlightColor


(***************************************************************************)
(* Two documents: one is previewed, annotated and closed, then the other.  *)
(***************************************************************************)
KeySelections == { Sel(1, 0, 3), Sel(1, 5, 8) }
NextKeys ==
  \/ \E doc \in AllDocs : OpenPreview(doc)
  \/ ClosePreview
  \/ DocumentLoaded
  \/ \E p \in Pages : RenderTextLayer(p)
  \/ Len(savedHighlights) < MaxAnchors
       /\ hostHighlightSelection(KeySelections)
  \/ hostAddCommentToSelection(KeySelections)
  \/ highlightSelection
  \/ addCommentToSelection
  \/ HostHighlightAdded
  \/ HostCommentAdded
  \/ HostRequestStoredHighlights
  \/ restoreHighlights
  \/ RestoreTimer
  \/ restoreSingleHighlight

SpecKeys == Init /\ [][NextKeys]_vars

\* the keys under which the lists of a kind are stored for a document
KindKeys(doc) ==
  [highlight |-> {getHighlightsKey(doc), highlightsStorageKey(doc)},
   annotation |-> {annotationsKey(doc)},
   comment |-> {commentsKey(doc)},
   stickyNote |-> {stickyNotesKey(doc)},
   drawing |-> {drawingsKey(doc)}]
Kinds == {"highlight", "annotation", "comment", "stickyNote", "drawing"}

\* the keys of different kinds, and of different documents, are different
KeysDistinct ==
  \A d1, d2 \in AllDocs : \A k1, k2 \in Kinds :
    (d1 # d2 \/ k1 # k2) => KindKeys(d1)[k1] \cap KindKeys(d2)[k2] = {}

\* C14: no two kinds share a key, and no two documents share a key; a
\* step of the preview of one document leaves everything stored under the
\* keys of the other document as it is; and the list the host holds when
\* the preview opens is the one stored under the document's own key.
C14_KeysIsolate ==
  [][/\ KeysDistinct
     /\ LET doc == IF session = "open" THEN resource ELSE resource'
        IN \A other \in AllDocs \ {doc} : \A k \in KeysOf(other) :
             globalState'[k] = globalState[k]
     /\ (session = "closed" /\ session' = "open")
        => /\ savedHighlights' = globalState[getHighlightsKey(resource')]
           /\ savedAnnotations' = <<>> /\ savedComments' = <<>>
           /\ savedStickyNotes' = <<>> /\ savedDrawings' = <<>>
    ]_vars

\* b.pdf is open with the highlight stored for it in an earlier session,
\* while two highlights and a comment are stored for a.pdf
C14_Witness ==
  /\ session = "open" /\ resource = DocB
  /\ Len(savedHighlights) = 1
  /\ globalState[getHighlightsKey(DocB)] = savedHighlights
  /\ Len(globalState[getHighlightsKey(DocA)]) = 2
  /\ globalState[getHighlightsKey(DocA)] # savedHighlights
  /\ Len(globalState[commentsKey(DocA)]) = 1
  /\ globalState[commentsKey(DocB)] = <<>>
  /\ Len(highlights) = 1


(***************************************************************************)
(* Clear-all and its confirmation                                          *)
(***************************************************************************)
ClearCommands == {"clearAllHighlights", "clearDrawings"}
\* the host sends the view message m in this step
Sends(m) == Len(toView') = Len(toView) + 1 /\ toView'[Len(toView')] = m

\* C15: the view is told to clear the highlights, or the drawings, only in
\* the step in which the user confirms the modal question; a step in which
\* the question is declined or dismissed sends nothing and leaves the view
\* lists, the markers, the host's lists and the store as they are.
C15_ClearAllConfirmed ==
  [][/\ \A t \in ClearCommands :
          Sends(Msg(t, None)) => (modal # "none" /\ modal' = "none")
     /\ (modal # "none" /\ modal' = "none" /\ toView' = toView)
        => UNCHANGED <<listVars, dom, painted, hostVars, globalState>>
    ]_vars


(***************************************************************************)
(* Page range: the user asks for pages to be printed and types a range.    *)
(***************************************************************************)
NextRange ==
  \/ \E doc \in Docs : OpenPreview(doc)
  \/ \E n \in Pages : FileChanged(n)
  \/ ViewReload
  \/ DocumentLoaded
  \/ \E p \in Pages : RenderTextLayer(p)
  \/ \E p \in Pages : PageChange(p)
  \/ HostRequestStoredHighlights
  \/ hostPrintPageRange
  \/ typeRange
  \/ acceptPrintRange
  \/ dismissDialog
  \/ printPages
  \/ HostNotice

SpecRange == Init /\ [][NextRange]_vars

\* part names page p: as the number p, or as a range a-b that p lies in
Names(part, p) ==
  \/ IsNumber(part) /\ Value(part) = p
  \/ \E i \in 1..Len(part) :
       /\ part[i] = "-"
       /\ IsNumber(SubSeq(part, 1, i - 1))
       /\ IsNumber(SubSeq(part, i + 1, Len(part)))
       /\ LET a == Value(SubSeq(part, 1, i - 1))
              b == Value(SubSeq(part, i + 1, Len(part)))
          IN (a <= p /\ p <= b) \/ (b <= p /\ p <= a)
\* the pages of 1..total that a comma-separated part of input names
Named(input, total) ==
  LET parts == Split(input, ",")
  IN {p \in 1..total : \E k \in 1..Len(parts) : Names(Trim(parts[k]), p)}

\* C17: the pages parsePageRange gives for an input are exactly the pages
\* of 1..totalPages that a part of the input names as a number or in a
\* range a-b, in ascending order and each once; an input that names none
\* (not numeric, or empty) gives no page, so nothing is sent to be printed.
C17_ParsePageRange ==
  [][(dialog.kind = "printRange" /\ dialog' = NoDialog)
       => LET named == Named(dialog.arg, TotalPages)
              pages == parsePageRange(dialog.arg, TotalPages)
          IN /\ Len(pages) = Cardinality(named)
             /\ \A k \in 1..Len(pages) : pages[k] \in named
             /\ \A k \in 1..(Len(pages) - 1) : pages[k] < pages[k + 1]
             /\ toView' # toView
                  => toView' = Append(toView, Msg("printPages", pages))
    ]_vars

(***************************************************************************)
(* Text extraction and its cancel                                          *)
(***************************************************************************)
NextExtract ==
  \/ \E doc \in Docs : OpenPreview(doc)
  \/ DocumentLoaded
  \/ HostRequestStoredHighlights
  \/ hostExtractAllText
  \/ hostExtractRangeText
  \/ typeRange
  \/ acceptTextRange
  \/ dismissDialog
  \/ cancelExtract
  \/ HostExtractProgress
  \/ handleExtractedText
  \/ extractAllText
  \/ extractRangeText
  \/ cancelExtraction
  \/ extractPage
  \/ HostNotice

SpecExtract == Init /\ [][NextExtract]_vars

\* The extraction of all pages alone, with the steps the script and the
\* host take by themselves kept fair.
NextAllText ==
  \/ \E doc \in Docs : OpenPreview(doc)
  \/ DocumentLoaded
  \/ HostRequestStoredHighlights
  \/ hostExtractAllText
  \/ dismissDialog
  \/ cancelExtract
  \/ HostExtractProgress
  \/ handleExtractedText
  \/ extractAllText
  \/ cancelExtraction
  \/ extractPage
  \/ HostNotice
\* what the script and the host do by themselves once a message is
\* delivered or the text of a page is there
AllTextRuns ==
  \/ DocumentLoaded
  \/ HostRequestStoredHighlights
  \/ HostExtractProgress
  \/ handleExtractedText
  \/ extractAllText
  \/ cancelExtraction
  \/ extractPage
  \/ HostNotice
\* every step of AllTextRuns takes a message from a queue or puts one in
queued == <<Len(toView), Len(toHost)>>
\* delivered messages are handled and awaited page texts arrive; the user
\* is not obliged to do anything
SpecAllText == Init /\ [][NextAllText]_vars /\ WF_queued(AllTextRuns)

\* C36: every started text extraction eventually closes its progress
\* notice: when it completes, when it is cancelled, and when the view
\* reports extractError.
C36_ProgressCloses ==
  \A job \in 1..MaxJobs : (job \in progress) ~> (job \notin progress)

\* C16: once the user has cancelled an extraction, of all pages or of a
\* page range, the choice of what to do with its text is never shown, also
\* when another extraction is started before its last message arrives.
C16_CancelledNeverOffered ==
  [][(/\ dialog'.kind = "extracted"
      /\ dialog.kind = "extracted" => dialog'.arg.job # dialog.arg.job)
       => dialog'.arg.job \notin cancelled]_vars

(***************************************************************************)
(* The list of the view and the list of the host                           *)
(***************************************************************************)
\* C18: whenever no message is in flight and no restore timer is pending,
\* the view's list of highlights and the host's persisted list have the
\* same length and hold the same text, page and color at every index, also
\* after restores in which some anchors are not found.
C18_ListsInSync ==
  Quiet =>
    /\ Len(highlights) = Len(savedHighlights)
    /\ globalState[getHighlightsKey(resource)] = savedHighlights
    /\ \A k \in 1..Len(highlights) :
         k <= Len(savedHighlights) =>
           /\ highlights[k].text = savedHighlights[k].text
           /\ highlights[k].page = savedHighlights[k].page
           /\ highlights[k].color = savedHighlights[k].color

(***************************************************************************)
(* Append: comments and sticky notes are added, the preview is closed and  *)
(* opened again, and more are added.                                       *)
(***************************************************************************)
AppendSelections == {Sel(1, 0, 3)}
NextAppend ==
  \/ \E doc \in Docs : OpenPreview(doc)
  \/ ClosePreview
  \/ DocumentLoaded
  \/ \E p \in Pages : RenderTextLayer(p)
  \/ HostRequestStoredHighlights
  \/ hostAddCommentToSelection(AppendSelections)
  \/ addCommentToSelection
  \/ HostCommentAdded
  \/ hostAddStickyNote
  \/ addStickyNoteAtSelection
  \/ HostStickyNoteAdded

SpecAppend == Init /\ [][NextAppend]_vars

\* the messages that append an anchor, and the key each one's kind is
\* persisted under
AddedTypes ==
  {"highlightAdded", "annotationAdded", "commentAdded", "stickyNoteAdded",
   "drawingAdded"}
KeyOfAdded(t, doc) ==
  CASE t = "highlightAdded" -> getHighlightsKey(doc)
    [] t = "annotationAdded" -> annotationsKey(doc)
    [] t = "commentAdded" -> commentsKey(doc)
    [] t = "stickyNoteAdded" -> stickyNotesKey(doc)
    [] t = "drawingAdded" -> drawingsKey(doc)
\* the host handles the message at the head of its queue
Handles(t) == HostGets(t) /\ toHost' = Tail(toHost) /\ session' = "open"

\* C19: appending an anchor of one kind adds exactly that anchor to the end
\* of the persisted list of that kind for the document, and leaves the
\* persisted lists of every other kind as they are, whatever the host's
\* lists of the other kinds hold.
C19_AppendOnlyOwnKind ==
  [][\A t \in AddedTypes :
       Handles(t) =>
         LET own == KeyOfAdded(t, resource)
         IN /\ globalState'[own] = Append(globalState[own], Head(toHost).arg)
            /\ \A u \in AddedTypes \ {t} :
                 globalState'[KeyOfAdded(u, resource)]
                   = globalState[KeyOfAdded(u, resource)]
    ]_vars

(***************************************************************************)
(* Stale: the list of highlights is asked for twice in a row, and the      *)
(* user deletes and jumps from the quick picks that come up.               *)
(***************************************************************************)
NextStale ==
  \/ \E doc \in Docs : OpenPreview(doc)
  \/ DocumentLoaded
  \/ \E p \in Pages : RenderTextLayer(p)
  \/ HostRequestStoredHighlights
  \/ restoreHighlights
  \/ RestoreTimer
  \/ restoreSingleHighlight
  \/ hostShowHighlightsList
  \/ hostShowHighlightsListAgain
  \/ getHighlightsSummary
  \/ handleHighlightsSummary
  \/ pickHighlight
  \/ pickHighlightAction
  \/ dismissDialog
  \/ answerClearHighlights
  \/ jumpToHighlightIndex
  \/ removeHighlight
  \/ clearAllHighlights
  \/ HostHighlightRemovedWithData
  \/ HostHighlightsCleared
  \/ HostNotice

\* two highlights with different texts were stored by an earlier session
InitStale ==
  \E doc \in Docs :
    Started([k \in Keys |->
               IF k = getHighlightsKey(doc)
                 THEN << Persisted(The, Yellow, 1),
                         Persisted(<<"a">>, Yellow, 1) >>
                 ELSE <<>>])

SpecStale == InitStale /\ [][NextStale]_vars

\* the user's choice of jump or delete is executed: the index of the
\* summary is sent to the view, which has nothing else to handle before it
Chooses ==
  /\ session = "open" /\ dialog.kind = "highlightAction"
  /\ toView = <<>> /\ Len(toView') = 1
  /\ Head(toView').type \in {"jumpToHighlightIndex", "removeHighlight"}

\* C20: an index taken from a summary is not applied after the list has
\* changed: when the user's choice of jump or delete is executed, the
\* highlight the view holds at the index sent is the one the user picked in
\* the summary, also when a delete was processed after the summary was
\* built.
C20_NoStaleIndex ==
  [][Chooses =>
       LET index == Head(toView').arg
       IN index < Len(highlights) =>
            Truncate(highlights[index + 1].text) = dialog.arg.text
    ]_vars

(***************************************************************************)
(* Update: sticky notes are added, edited, dragged and closed; comments    *)
(* are added and edited from their popup.                                  *)
(***************************************************************************)
UpdateSelections == {Sel(1, 0, 3)}
NextUpdate ==
  \/ \E doc \in Docs : OpenPreview(doc)
  \/ DocumentLoaded
  \/ \E p \in Pages : RenderTextLayer(p)
  \/ HostRequestStoredHighlights
  \/ hostAddStickyNote
  \/ addStickyNoteAtSelection
  \/ dragMouseDown
  \/ elementDrag
  \/ closeDragElement
  \/ contentBlur
  \/ closeBtnClick
  \/ HostStickyNoteAdded
  \/ HostStickyNoteUpdated
  \/ HostStickyNotePositionChanged
  \/ hostAddCommentToSelection(UpdateSelections)
  \/ addCommentToSelection
  \/ HostCommentAdded
  \/ iconClick
  \/ HostShowComment
  \/ pickCommentAction
  \/ answerEditComment
  \/ dismissDialog
  \/ editComment
  \/ jumpToComment
  \/ deleteComment
  \/ HostNotice

SpecUpdate == Init /\ [][NextUpdate]_vars

\* new is old but for the patched fields of its entry at the 0-based index
OnlyPatched(old, new, index, patched) ==
  /\ Len(new) = Len(old)
  /\ \A j \in 1..Len(old) : j # index + 1 => new[j] = old[j]
  /\ DOMAIN new[index + 1] = DOMAIN old[index + 1]
  /\ \A f \in DOMAIN old[index + 1] \ patched :
       new[index + 1][f] = old[index + 1][f]
\* the view posts one message, of type t
Posts(t) ==
  /\ session = "open" /\ session' = "open"
  /\ Len(toHost') = Len(toHost) + 1
  /\ toHost'[Len(toHost')].type = t
  /\ SubSeq(toHost', 1, Len(toHost)) = toHost

\* C21: an update of the sticky note or of the comment at an index of the
\* list changes only the patched fields of that entry (a new position
\* leaves content, color and page, a new content leaves position, color and
\* page, a new comment leaves text, color and page), leaves every other
\* entry as it is, and what is persisted is the updated list; this holds
\* for the list of the view and for the list of the host.
C21_UpdateInPlace ==
  [][/\ (Handles("stickyNoteUpdated")
          /\ ~OutOfRange(savedStickyNotes, Head(toHost).arg.index))
        => /\ OnlyPatched(savedStickyNotes, savedStickyNotes',
                          Head(toHost).arg.index, {"content"})
           /\ savedStickyNotes'[Head(toHost).arg.index + 1].content
                = Head(toHost).arg.content
           /\ globalState'[stickyNotesKey(resource)] = savedStickyNotes'
     /\ (Handles("stickyNotePositionChanged")
          /\ ~OutOfRange(savedStickyNotes, Head(toHost).arg.index))
        => /\ OnlyPatched(savedStickyNotes, savedStickyNotes',
                          Head(toHost).arg.index, {"x", "y"})
           /\ savedStickyNotes'[Head(toHost).arg.index + 1].x
                = Head(toHost).arg.x
           /\ savedStickyNotes'[Head(toHost).arg.index + 1].y
                = Head(toHost).arg.y
           /\ globalState'[stickyNotesKey(resource)] = savedStickyNotes'
     /\ (/\ session = "open" /\ dialog.kind = "editComment"
          /\ Len(toView') = Len(toView) + 1
          /\ ~OutOfRange(savedComments, dialog.arg.index))
        => /\ OnlyPatched(savedComments, savedComments', dialog.arg.index,
                          {"comment"})
           /\ savedComments'[dialog.arg.index + 1].comment
                = toView'[Len(toView')].arg.newComment
           /\ globalState'[commentsKey(resource)] = savedComments'
     /\ Posts("stickyNoteUpdated")
        => OnlyPatched(stickyNotes, stickyNotes',
                       toHost'[Len(toHost')].arg.index, {"content"})
     /\ Posts("stickyNotePositionChanged")
        => OnlyPatched(stickyNotes, stickyNotes',
                       toHost'[Len(toHost')].arg.index, {"x", "y"})
     /\ (/\ ViewGets("editComment") /\ toView' = Tail(toView)
          /\ ~OutOfRange(comments, Head(toView).arg.index))
        => OnlyPatched(comments, comments', Head(toView).arg.index,
                       {"comment"})
     /\ (Handles("stickyNoteUpdated") \/ Handles("stickyNotePositionChanged"))
        => UNCHANGED <<savedHighlights, savedAnnotations, savedComments,
                       savedDrawings>>
    ]_vars

\* of two notes the first has been edited and dragged, the second is as it
\* was added; the one comment has been edited
C21_Witness ==
  /\ Len(savedStickyNotes) = 2
  /\ savedStickyNotes[1].content = <<"e">>
  /\ <<savedStickyNotes[1].x, savedStickyNotes[1].y>> = <<200, 150>>
  /\ savedStickyNotes[2].content = <<"n">>
  /\ <<savedStickyNotes[2].x, savedStickyNotes[2].y>> = PageCenter
  /\ globalState[stickyNotesKey(resource)] = savedStickyNotes
  /\ Len(savedComments) = 1 /\ savedComments[1].comment = <<"o", "k">>
  /\ globalState[commentsKey(resource)] = savedComments
  /\ Len(comments) = 1 /\ comments[1].comment = <<"o", "k">>

(***************************************************************************)
(* Order: stored highlights are re-anchored, once per 'documentloaded',    *)
(* while sticky notes are added and dragged; the preview is closed         *)
(* and opened again.                                                       *)
(***************************************************************************)
NextOrder ==
  \/ \E doc \in Docs : OpenPreview(doc)
  \/ ClosePreview
  \/ DocumentLoaded
  \/ \E p \in Pages : RenderTextLayer(p)
  \/ HostRequestStoredHighlights
  \/ restoreHighlights
  \/ RestoreTimer
  \/ restoreSingleHighlight
  \/ hostAddStickyNote
  \/ addStickyNoteAtSelection
  \/ dragMouseDown
  \/ elementDrag
  \/ closeDragElement
  \/ HostStickyNoteAdded
  \/ HostStickyNotePositionChanged
  \/ HostNotice

SpecOrder == InitStored /\ [][NextOrder]_vars

\* the first place of v in stored at or after from, 0 if there is none
NextAt(stored, v, from) ==
  LET hits == {k \in from..Len(stored) : stored[k] = v}
  IN IF hits = {} THEN 0 ELSE CHOOSE k \in hits : \A j \in hits : k <= j
\* how many more times stored has to be gone through, in its order and
\* from its start, to meet the entries of list in their order, after a
\* pass that has come to the place from
RECURSIVE MorePasses(_, _, _)
MorePasses(list, stored, from) ==
  IF list = <<>> THEN 0
  ELSE LET here == NextAt(stored, Head(list), from)
           again == NextAt(stored, Head(list), 1)
       IN IF here # 0 THEN MorePasses(Tail(list), stored, here + 1)
          ELSE IF again # 0
            THEN 1 + MorePasses(Tail(list), stored, again + 1)
          ELSE Len(list) + Len(stored) + 1
Passes(list, stored) ==
  IF list = <<>> THEN 0 ELSE 1 + MorePasses(list, stored, 1)

\* v is at one place of list
Once(list, v) == Cardinality({i \in 1..Len(list) : list[i] = v}) = 1
\* two entries that old holds once each and new holds once each are in new
\* in the order they have in old
OrderKept(old, new) ==
  \A i, j \in 1..Len(old) :
    (i < j /\ Once(old, old[i]) /\ Once(old, old[j])
       /\ Once(new, old[i]) /\ Once(new, old[j]))
      => \A k, l \in 1..Len(new) :
           (new[k] = old[i] /\ new[l] = old[j]) => k < l

\* C22: the anchors of a list are restored in the order of the list: the
\* view's list of highlights is made of the stored list gone through in
\* its order, once per restore pass (one pass per 'documentloaded' event
\* of the open); and no capture, restore or update changes the order two
\* anchors have in a persisted list or in the host's list.
C22_OrderKept ==
  /\ [](session = "open"
          => Passes(LiveHighlights, savedHighlights) <= LoadsOnOpen)
  /\ [][/\ \A k \in Keys : OrderKept(globalState[k], globalState'[k])
        /\ session' = "open" /\ session = "open"
             => /\ OrderKept(savedHighlights, savedHighlights')
                /\ OrderKept(savedStickyNotes, savedStickyNotes')
                /\ OrderKept(LiveHighlights, LiveHighlights')
                /\ OrderKept(LiveNotes, LiveNotes')
       ]_vars

\* the three stored highlights have been restored once, in their order,
\* and of two sticky notes the first has been dragged
C22_Witness ==
  /\ Quiet /\ savedHighlights = Stored3 /\ LiveHighlights = Stored3
  /\ Len(savedStickyNotes) = 2
  /\ <<savedStickyNotes[1].x, savedStickyNotes[1].y>> = <<200, 150>>
  /\ <<savedStickyNotes[2].x, savedStickyNotes[2].y>> = PageCenter
  /\ globalState[stickyNotesKey(resource)] = savedStickyNotes

(***************************************************************************)
(* The first match                                                         *)
(***************************************************************************)
\* text is in txt, as it is written, at the 0-based place i
HoldsAt(txt, text, i) ==
  /\ i >= 0 /\ i + Len(text) <= Len(txt)
  /\ \A n \in 1..Len(text) : txt[i + n] = text[n]
Holds(txt, text) == \E i \in 0..Len(txt) : HoldsAt(txt, text, i)
\* the place, in the text of the page, of the first occurrence of text in
\* the first text node that holds it
FirstPlace(leaves, text) ==
  LET k == CHOOSE k \in 1..Len(leaves) :
             /\ Holds(leaves[k].txt, text)
             /\ \A j \in 1..(k - 1) : ~Holds(leaves[j].txt, text)
      i == CHOOSE i \in 0..Len(leaves[k].txt) :
             /\ HoldsAt(leaves[k].txt, text, i)
             /\ \A j \in 0..(i - 1) : ~HoldsAt(leaves[k].txt, text, j)
  IN Offset(leaves, k) + i
\* the place, in the text of the page, where the element id begins
MarkerStart(leaves, id) ==
  LET in == {k \in 1..Len(leaves) :
               \E m \in 1..Len(leaves[k].path) : leaves[k].path[m].id = id}
  IN Offset(leaves, CHOOSE k \in in : \A j \in in : k <= j)
\* the elements the step has put into the text layer of page p
NewIn(p) == IdsOfLeaves(dom'[p]) \ IdsOfLeaves(dom[p])

\* C23: the restore of one stored highlight makes at most one marker; the
\* marker is on the page of the highlight and wraps exactly the first
\* occurrence of its text in the first text node of the text layer, in
\* document order, that holds the text, and no text node after it gets a
\* marker; the text of the pages stays as it is.
C23_FirstMatchWins ==
  [][SingleStep =>
       /\ \A p \in Pages :
            /\ TextContent(dom'[p]) = TextContent(dom[p])
            /\ p # Anchor.page => NewIn(p) = {}
       /\ Anchor.page \in Pages =>
            /\ Cardinality(NewIn(Anchor.page)) <= 1
            /\ Anchorable => Cardinality(NewIn(Anchor.page)) = 1
            /\ \A id \in NewIn(Anchor.page) :
                 /\ SpanText(dom'[Anchor.page], id) = Anchor.text
                 /\ MarkerStart(dom'[Anchor.page], id)
                      = FirstPlace(dom[Anchor.page], Anchor.text)
    ]_vars

\* "the" is in both text nodes of page 1; restored once, it is wrapped at
\* the start of the first one, and the second one is as it was
C23_Witness ==
  /\ Quiet /\ savedHighlights = << Persisted(The, Yellow, 1) >>
  /\ Len(highlights) = 1
  /\ Cardinality(Markers("pdf-highlight")) = 1
  /\ Len(dom[1]) = 4 /\ dom[1][1].txt = <<>>
  /\ dom[1][2].txt = The /\ Len(dom[1][2].path) = 2
  /\ dom[1][4] = PristinePage(1)[2]

(***************************************************************************)
(* Count: stored highlights are re-anchored, one restore pass at a time:   *)
(* a 'documentloaded' event comes when the pass before it has run.         *)
(***************************************************************************)
\* 'documentloaded' is dispatched while no restore is under way
DocumentLoadedApart ==
  /\ restoreTimers = <<>> /\ singleTimers = <<>> /\ toView = <<>>
  /\ \A k \in 1..Len(toHost) : toHost[k].type # "requestStoredHighlights"
  /\ DocumentLoaded

NextCount ==
  \/ \E doc \in Docs : OpenPreview(doc)
  \/ \E n \in Pages : FileChanged(n)
  \/ ViewReload
  \/ DocumentLoadedApart
  \/ \E p \in Pages : RenderTextLayer(p)
  \/ HostRequestStoredHighlights
  \/ HostNotice
  \/ restoreHighlights
  \/ RestoreTimer
  \/ restoreSingleHighlight

SpecCount == InitStored /\ [][NextCount]_vars

\* the last restore pass has run, and what it has reported is still on its
\* way to the host
Reported ==
  /\ session = "open" /\ restoreTimers = <<>> /\ singleTimers = <<>>
  /\ toHost # <<>> /\ toHost[Len(toHost)].type = "highlightsRestored"
\* the count of the report
Count == toHost[Len(toHost)].arg

\* C24: the count a restore pass reports with highlightsRestored is the
\* number of stored highlights the pass has re-applied: the pass reports
\* when it starts, so what it has re-applied is what the view's list has
\* gained since, its length less the length it had then.
C24_CountIsRestored ==
  Reported => Count = Len(highlights) - Count

(***************************************************************************)
(* Replay: a document whose sticky note and drawing were stored by an      *)
(* earlier session is opened, and they are restored.                       *)
(***************************************************************************)
\* a note dragged to (200, 150) and a rectangle, both on page 2 or both on
\* page 1
StoredNote(page) == PersistedNote(<<"n">>, NoteColor, page, 200, 150)
StoredDrawing(page) ==
  Drawing(Geometry("rectangle", 10, 10, 30, 20, <<>>), DrawingColor, page)
InitReplay ==
  \E doc \in Docs : \E page \in Pages :
    Started([k \in Keys |->
               IF k = stickyNotesKey(doc) THEN << StoredNote(page) >>
               ELSE IF k = drawingsKey(doc) THEN << StoredDrawing(page) >>
               ELSE <<>>])

NextReplay ==
  \/ \E doc \in Docs : OpenPreview(doc)
  \/ DocumentLoaded
  \/ HostRequestStoredHighlights
  \/ \E p \in Pages : PageChange(p)
  \/ restoreAllAnnotations
  \/ HostStickyNoteAdded
  \/ dragMouseDown
  \/ elementDrag
  \/ closeDragElement
  \/ HostStickyNotePositionChanged
  \/ hostStartDrawingMode
  \/ startDrawingMode
  \/ hostStopDrawingMode
  \/ stopDrawingMode
  \/ HostNotice

SpecReplay == InitReplay /\ [][NextReplay]_vars

\* the view has run restoreAllAnnotations
Restores ==
  /\ session = "open" /\ session' = "open"
  /\ Len(toHost') > Len(toHost)
  /\ toHost'[Len(toHost')].type = "annotationsRestored"

EdgeSelections ==
  { Sel(1, 3, 5),       \* " a": inside the first chunk
    Sel(1, 0, 4),       \* "the ": inside the first chunk
    Sel(1, 3, 7),       \* " a" + "th": spans two chunks
    Sel(1, 4, 7) }      \* "a" + "th": spans two chunks

NextTrim ==
  \/ \E doc \in Docs : OpenPreview(doc)
  \/ DocumentLoaded
  \/ \E p \in Pages : RenderTextLayer(p)
  \/ hostHighlightSelection(EdgeSelections)
  \/ hostAnnotateSelection(EdgeSelections)
  \/ hostAddCommentToSelection(EdgeSelections)
  \/ highlightSelection
  \/ annotateSelection
  \/ addCommentToSelection
  \/ HostHighlightAdded
  \/ HostAnnotationAdded
  \/ HostCommentAdded
  \/ HostRequestStoredHighlights
  \/ HostNotice

SpecTrim == Init /\ [][NextTrim]_vars

\* the texts of the text-bound anchors of a list
TextsOf(list) ==
  {list[i].text : i \in {j \in 1..Len(list) : "text" \in DOMAIN list[j]}}
AnchorTexts ==
  TextsOf(highlights) \cup TextsOf(annotations) \cup TextsOf(comments)
    \cup UNION {TextsOf(globalState[k]) : k \in Keys}

\* C26: every text-bound anchor of the view's lists and of the persisted
\* lists has a text that is not empty and has no whitespace at its start
\* or at its end, whether the marker was put by the direct wrap or by the
\* fallback that extracts the range and inserts it again.
C26_TextTrimmed ==
  \A text \in AnchorTexts : text # <<>> /\ Trim(text) = text

(***************************************************************************)
(* Unwrap: comments and highlights are captured, one inside the other or   *)
(* overlapping, and removed one by one or all at once.                     *)
(***************************************************************************)
UnwrapSelections ==
  { Sel(2, 0, SummaryLen + 1),     \* the start of the long chunk
    Sel(2, 1, SummaryLen + 2) }    \* one character further

NextUnwrap ==
  \/ \E doc \in Docs : OpenPreview(doc)
  \/ DocumentLoaded
  \/ \E p \in Pages : RenderTextLayer(p)
  \/ \E p \in Pages : PageChange(p)
  \/ HostRequestStoredHighlights
  \/ hostHighlightSelection(UnwrapSelections)
  \/ highlightSelection
  \/ HostHighlightAdded
  \/ hostAddCommentToSelection(UnwrapSelections)
  \/ addCommentToSelection
  \/ HostCommentAdded
  \/ hostShowHighlightsList
  \/ getHighlightsSummary
  \/ handleHighlightsSummary
  \/ pickHighlight
  \/ pickHighlightAction
  \/ dismissDialog
  \/ answerClearHighlights
  \/ removeHighlight
  \/ clearAllHighlights
  \/ HostHighlightRemovedWithData
  \/ HostHighlightsCleared
  \/ iconClick
  \/ HostShowComment
  \/ pickCommentAction
  \/ deleteComment
  \/ HostNotice

SpecUnwrap == Init /\ [][NextUnwrap]_vars

\* the view handles a command that removes markers
RemovalCommands == {"removeHighlight", "clearAllHighlights", "deleteComment"}
RemovalStep ==
  /\ session = "open" /\ toView # <<>> /\ toView' = Tail(toView)
  /\ Head(toView).type \in RemovalCommands
\* the text of a text layer, the comment icons aside
PlainText(leaves) ==
  TextContent(SelectSeq(leaves,
    LAMBDA l : \A m \in 1..Len(l.path) : l.path[m].cls # "pdf-comment-icon"))

\* C27: removing markers deletes no text: when a single delete or a
\* clear-all has removed the last anchor of the view's lists, the text
\* content of each rendered text layer is the text the page had before any
\* marker was created, provided the page still had that text (the comment
\* icons aside) before the removal.
C27_UnwrapKeepsText ==
  [][(/\ RemovalStep
      /\ highlights' = <<>> /\ annotations' = <<>> /\ comments' = <<>>)
       => \A p \in Pages :
            (dom[p] # <<>> /\ PlainText(dom[p]) = TextContent(PristinePage(p)))
              => TextContent(dom'[p]) = TextContent(PristinePage(p))
    ]_vars

(***************************************************************************)
(* Drawing mode: stopping, abandoned gestures, starting again              *)
(***************************************************************************)
\* the view handles the command t
ViewRuns(t) == ViewGets(t) /\ toView' = Tail(toView)

\* C28: stopDrawingMode keeps the drawing list as it is and leaves drawing
\* mode; while drawing mode is off no step adds a shape to the list (no
\* pointer event is listened to), and the list changes only when
\* clearDrawings removes shapes.
C28_StopKeepsDrawings ==
  [][/\ ViewRuns("stopDrawingMode")
          => drawingAnnotations' = drawingAnnotations /\ ~isDrawingMode'
     /\ (~isDrawingMode /\ ~ViewRuns("clearDrawings"))
          => drawingAnnotations' = drawingAnnotations
     /\ (~isDrawingMode /\ ViewRuns("clearDrawings"))
          => Len(drawingAnnotations') <= Len(drawingAnnotations)
    ]_vars

\* drawing mode was stopped while a gesture was under way: the shape drawn
\* before is in the list, the shape of the gesture is not
C28_Witness ==
  /\ ~isDrawingMode /\ HostGets("drawingModeStopped")
  /\ drawingCanvas.attached /\ ~drawingCanvas.pointerEvents
  /\ Len(drawingAnnotations) = 1
  /\ isDrawing /\ tempShape # NoShape
  /\ tempShape # GeometryOf(drawingAnnotations[1])

\* C29: a shape is committed only by the pointer-up that ends a gesture,
\* and it is the shape of that gesture: a freehand shape is the path
\* gathered since the pointer went down, any other shape starts where the
\* pointer went down; so a gesture abandoned by the pointer leaving the
\* canvas commits nothing, then or on a later pointer-down and pointer-up
\* without movement.
C29_CommitIsGesture ==
  [][Len(drawingAnnotations') > Len(drawingAnnotations)
       => LET d == drawingAnnotations'[Len(drawingAnnotations')]
          IN /\ isDrawing /\ ~isDrawing'
             /\ drawingAnnotations' = Append(drawingAnnotations, d)
             /\ d.type = "freehand" => d.path = currentDrawingPath
             /\ d.type # "freehand" => <<d.x, d.y>> = startPoint
    ]_vars

\* C30: drawing mode can be entered again: whenever startDrawingMode has
\* run on a page that is laid out, a first time or after a stop, on the
\* same page or on another one, the canvas is on the page being viewed and
\* takes pointer events, so that a gesture on that page commits a shape.
C30_StartAgain ==
  [][(ViewRuns("startDrawingMode") /\ PageContainer(currentPageNumber))
       => /\ isDrawingMode'
          /\ drawingCanvas'.attached /\ drawingCanvas'.pointerEvents
          /\ drawingCanvas'.page = currentPageNumber
    ]_vars

(***************************************************************************)
(* Split view: a second preview of the same document. It is a PdfPreview   *)
(* of its own, with its own _savedHighlights, writing under the same key.  *)
(***************************************************************************)
\* what the user highlights in the second preview
PeerHighlights == {Persisted(<<"a">>, Yellow, 1)}

\* openInSplitView: vscode.openWith(resource, 'pdf.preview', Beside) makes a
\* second PdfPreview, whose constructor loads the highlights
openInSplitView ==
  /\ session = "open" /\ Idle /\ ~peer.open
  /\ peer' = [open |-> TRUE,
              savedHighlights |-> loadHighlights(globalState, resource)]
  /\ UNCHANGED <<extractVars, navVars, dragging, drawVars, dialogVars,
                 session, resource, filePages, globalState, hostVars, docVars,
                 domVars, listVars, timerVars, toView, toHost>>

\* case 'highlightAdded' in the second preview
PeerHighlightAdded ==
  /\ session = "open" /\ peer.open
  /\ Len(peer.savedHighlights) < MaxAnchors
  /\ \E h \in PeerHighlights :
       peer' = [peer EXCEPT !.savedHighlights =
                  addHighlightToStorage(peer.savedHighlights, h)]
  /\ globalState' =
       Update(globalState, getHighlightsKey(resource), peer'.savedHighlights)
  /\ UNCHANGED <<extractVars, navVars, dragging, drawVars, dialogVars,
                 session, resource, filePages, hostVars, docVars,
                 domVars, listVars, timerVars, toView, toHost>>

\* case 'highlightRemovedWithData' in the second preview
PeerHighlightRemovedWithData ==
  /\ session = "open" /\ peer.open
  /\ \E index \in 0..(Len(peer.savedHighlights) - 1) :
       /\ peer' = [peer EXCEPT !.savedHighlights =
                     removeHighlightFromStorage(peer.savedHighlights, index)]
       /\ globalState' =
            Update(globalState, getHighlightsKey(resource),
                   peer'.savedHighlights)
  /\ UNCHANGED <<extractVars, navVars, dragging, drawVars, dialogVars,
                 session, resource, filePages, hostVars, docVars,
                 domVars, listVars, timerVars, toView, toHost>>

SplitSelections == {Sel(1, 0, 3)}

NextSplit ==
  \/ \E doc \in Docs : OpenPreview(doc)
  \/ DocumentLoaded
  \/ \E p \in Pages : RenderTextLayer(p)
  \/ HostRequestStoredHighlights
  \/ hostHighlightSelection(SplitSelections)
  \/ highlightSelection
  \/ HostHighlightAdded
  \/ openInSplitView
  \/ PeerHighlightAdded
  \/ PeerHighlightRemovedWithData

SpecSplit == Init /\ [][NextSplit]_vars

\* the list persisted for the document of the previews
PersistedHighlights == globalState[getHighlightsKey(resource)]

\* C31: with the document open in two previews no persisted highlight is
\* lost: a highlight added in either preview is appended to the persisted
\* list, which keeps what it held, and a delete in a preview takes from the
\* persisted list the one anchor deleted there and no other.
C31_NoLostHighlight ==
  [][/\ (HostGets("highlightAdded") /\ toHost' = Tail(toHost))
          => PersistedHighlights' =
               Append(PersistedHighlights, Head(toHost).arg)
     /\ (peer.open /\ Len(peer'.savedHighlights) > Len(peer.savedHighlights))
          => PersistedHighlights' =
               Append(PersistedHighlights,
                      peer'.savedHighlights[Len(peer'.savedHighlights)])
     /\ (peer.open /\ Len(peer'.savedHighlights) < Len(peer.savedHighlights))
          => \E i \in 1..Len(PersistedHighlights) :
               PersistedHighlights' = Splice(PersistedHighlights, i - 1)
    ]_vars

\* the messages on which the host changes a list and persists it
StoreMessages ==
  {"highlightAdded", "highlightRemovedWithData", "highlightsCleared",
   "annotationAdded", "commentAdded", "stickyNoteAdded", "stickyNoteUpdated",
   "stickyNotePositionChanged", "drawingAdded"}
\* the view runs a part of a restore: the handler of a restore message or
\* one of the timers it has armed
RestoreStep ==
  \/ Restores
  \/ ViewRuns("restoreHighlights")
  \/ session' = "open" /\ Len(restoreTimers') < Len(restoreTimers)
  \/ session' = "open" /\ Len(singleTimers') < Len(singleTimers)

IconSelections == {Sel(1, 0, 3), Sel(2, 0, SummaryLen + 1)}

NextIcon ==
  \/ \E doc \in Docs : OpenPreview(doc)
  \/ DocumentLoaded
  \/ \E p \in Pages : RenderTextLayer(p)
  \/ \E p \in Pages : PageChange(p)
  \/ HostRequestStoredHighlights
  \/ hostAddCommentToSelection(IconSelections)
  \/ addCommentToSelection
  \/ HostCommentAdded
  \/ iconClick
  \/ HostShowComment
  \/ pickCommentAction
  \/ answerEditComment
  \/ dismissDialog
  \/ editComment
  \/ jumpToComment
  \/ deleteComment
  \/ HostNotice

SpecIcon == Init /\ [][NextIcon]_vars

\* the comments whose icon is in a text layer, where it can be clicked
Clickable ==
  {c \in 1..Len(comments) :
     \E p \in Pages : \E e \in ElementsIn(dom[p]) : e.id = comments[c].icon}
\* an icon is clicked and the view asks the host to show a comment
IconClicked ==
  /\ session = "open" /\ session' = "open"
  /\ Len(toHost') > Len(toHost)
  /\ toHost'[Len(toHost')].type = "showComment"

\* C33: a click on the icon of a commented span shows the comment of that
\* span: whichever of the icons in the page is clicked, the comment the view
\* asks the host to show is the one the icon belongs to.
C33_IconShowsOwnComment ==
  [][IconClicked
       => \A c \in Clickable :
            LET shown == toHost'[Len(toHost')].arg
            IN /\ shown.index = c - 1
               /\ shown.comment = comments[c].comment
               /\ shown.text = comments[c].text
    ]_vars

(***************************************************************************)
(* Page history                                                            *)
(***************************************************************************)
History(pages, index) == [pages |-> pages, index |-> index]

\* a history that grows without limit
addToHistoryUnbounded(pageHistory_, historyIndex_, page) ==
  LET cut == IF historyIndex_ < Len(pageHistory_) - 1
               THEN SubSeq(pageHistory_, 1, historyIndex_ + 1)
               ELSE pageHistory_
  IN IF cut = <<>> \/ cut[Len(cut)] # page
       THEN History(Append(cut, page), Len(cut))
       ELSE History(cut, historyIndex_)

\* addToHistory(page)
addToHistory(pageHistory_, historyIndex_, page) ==
  LET cut == IF historyIndex_ < Len(pageHistory_) - 1
               THEN SubSeq(pageHistory_, 1, historyIndex_ + 1)
               ELSE pageHistory_
      pushed == IF cut = <<>> \/ cut[Len(cut)] # page
                  THEN History(Append(cut, page), Len(cut))
                  ELSE History(cut, historyIndex_)
  IN IF Len(pushed.pages) > HistoryLimit
       THEN History(Tail(pushed.pages), pushed.index - 1)
       ELSE pushed

\* few page changes and page commands are on their way
NavIdle == InFlight < MaxNav /\ dialog.kind = "none" /\ modal = "none"

\* the 'pagechanging' event of the viewer when the user scrolls to page p:
\* notifyPageChange. The field by tells what changed the page; no code
\* reads it.
pagechanging(p) ==
  /\ session = "open" /\ NavIdle
  /\ p <= pagesCount
  /\ p # currentPageNumber
  /\ currentPageNumber' = p
  /\ toHost' = Append(toHost, Msg("pageChanged", [page |-> p, by |-> "user"]))
  /\ UNCHANGED <<toolVars, session, resource, filePages, globalState, hostVars,
                 pagesCount, loadEvents, domVars, listVars, timerVars, toView>>

\* case 'gotoPage' of the view: the viewer raises 'pagechanging' when the
\* page it shows changes
gotoPage ==
  /\ ViewGets("gotoPage")
  /\ toView' = Tail(toView)
  /\ LET page == Head(toView).arg
     IN IF page >= 1 /\ page <= pagesCount /\ page # currentPageNumber
          THEN /\ currentPageNumber' = page
               /\ toHost' =
                    Append(toHost, Msg("pageChanged",
                                       [page |-> page, by |-> "gotoPage"]))
          ELSE UNCHANGED <<currentPageNumber, toHost>>
  /\ UNCHANGED <<toolVars, session, resource, filePages, globalState, hostVars,
                 pagesCount, loadEvents, domVars, listVars, timerVars>>

\* case 'pageChanged'
HostPageChanged ==
  /\ HostGets("pageChanged")
  /\ toHost' = Tail(toHost)
  /\ LET after == addToHistory(pageHistory, historyIndex, Head(toHost).arg.page)
     IN IF ~isNavigating
          THEN pageHistory' = after.pages /\ historyIndex' = after.index
          ELSE UNCHANGED <<pageHistory, historyIndex>>
  /\ isNavigating' = FALSE
  /\ UNCHANGED <<extractVars, peer, dragging, drawVars, dialogVars, session,
                 resource, filePages, globalState, hostVars, docVars, domVars,
                 listVars, timerVars, toView>>

\* gotoPage(page) of the host, for a page that is given
hostGotoPage(page) ==
  toView' = IF page >= 1 /\ page <= TotalPages
              THEN Append(toView, Msg("gotoPage", page))
              ELSE toView

\* goBack, when there is a page to go back to (it only shows a notice when
\* there is none)
goBack ==
  /\ session = "open" /\ NavIdle
  /\ historyIndex > 0
  /\ historyIndex' = historyIndex - 1
  /\ isNavigating' = TRUE
  /\ hostGotoPage(pageHistory[historyIndex' + 1])
  /\ UNCHANGED <<extractVars, peer, dragging, drawVars, dialogVars, session,
                 resource, filePages, globalState, hostVars, docVars, domVars,
                 listVars, timerVars, toHost, pageHistory>>

\* goForward, when there is a page to go forward to
goForward ==
  /\ session = "open" /\ NavIdle
  /\ historyIndex < Len(pageHistory) - 1
  /\ historyIndex' = historyIndex + 1
  /\ isNavigating' = TRUE
  /\ hostGotoPage(pageHistory[historyIndex' + 1])
  /\ UNCHANGED <<extractVars, peer, dragging, drawVars, dialogVars, session,
                 resource, filePages, globalState, hostVars, docVars, domVars,
                 listVars, timerVars, toHost, pageHistory>>

NextHistory ==
  \/ \E doc \in Docs : OpenPreview(doc)
  \/ DocumentLoaded
  \/ HostRequestStoredHighlights
  \/ \E n \in Pages : FileChanged(n)
  \/ ViewReload
  \/ \E p \in Pages : pagechanging(p)
  \/ gotoPage
  \/ HostPageChanged
  \/ goBack
  \/ goForward

SpecHistory == Init /\ [][NextHistory]_vars

\* the host handles the report of a page change that was made by what
HostHandlesPageChange(what) ==
  /\ HostGets("pageChanged") /\ toHost' = Tail(toHost)
  /\ Head(toHost).arg.by = what

\* C34: goBack and goForward move the history index only: the pages of the
\* history stay as they are when a command is run and when the host gets
\* the report of the page change the command has caused, also when several
\* commands are run before the reports arrive.
C34_NavigationKeepsHistory ==
  [][/\ historyIndex' # historyIndex /\ isNavigating'
          => pageHistory' = pageHistory
     /\ HostHandlesPageChange("gotoPage")
          => pageHistory' = pageHistory /\ historyIndex' = historyIndex
    ]_vars

\* C35: a page change that goBack or goForward has not caused is recorded
\* in the history, and the flag set by goBack or goForward does not outlive
\* the command: it is off whenever no page command and no report of a page
\* change is on its way.
C35_UserChangesRecorded ==
  /\ [][HostHandlesPageChange("user")
          => LET after == addToHistory(pageHistory, historyIndex,
                                       Head(toHost).arg.page)
             IN pageHistory' = after.pages /\ historyIndex' = after.index
       ]_vars
  /\ [](session = "open" /\ toView = <<>> /\ toHost = <<>> => ~isNavigating)

\* C38: the page history has at most 50 entries, no two adjacent entries
\* are equal, and the index is between -1 and the last position, -1 only
\* while the history is empty.
C38_HistoryBounds ==
  /\ Len(pageHistory) <= HistoryLimit
  /\ \A i \in 1..(Len(pageHistory) - 1) : pageHistory[i] # pageHistory[i + 1]
  /\ 0 - 1 <= historyIndex /\ historyIndex <= Len(pageHistory) - 1
  /\ historyIndex = 0 - 1 => pageHistory = <<>>

\* the history is full and its oldest entry has been dropped: the first
\* page ever recorded is page 2 (the viewer opens on page 1), and now the
\* first entry is page 1; the user has gone back since
C38_Witness ==
  /\ Len(pageHistory) = HistoryLimit
  /\ pageHistory[1] = 1
  /\ historyIndex < Len(pageHistory) - 1

(***************************************************************************)
(* Current highlight: one highlight is stored and re-anchored; the user    *)
(* captures another, jumps to the next one or to one of the list, deletes  *)
(* one and clears them all.                                                *)
(***************************************************************************)
JumpSelections == {Sel(1, 5, 8)}     \* "the" of the second chunk

NextJump ==
  \/ \E doc \in Docs : OpenPreview(doc)
  \/ DocumentLoaded
  \/ \E p \in Pages : RenderTextLayer(p)
  \/ HostRequestStoredHighlights
  \/ restoreHighlights
  \/ RestoreTimer
  \/ restoreSingleHighlight
  \/ hostHighlightSelection(JumpSelections)
  \/ highlightSelection
  \/ HostHighlightAdded
  \/ hostJumpToNextHighlight
  \/ jumpToNextHighlight
  \/ hostShowHighlightsList
  \/ getHighlightsSummary
  \/ handleHighlightsSummary
  \/ pickHighlight
  \/ pickHighlightAction
  \/ dismissDialog
  \/ hostClearAllHighlights
  \/ answerClearHighlights
  \/ jumpToHighlightIndex
  \/ removeHighlight
  \/ clearAllHighlights
  \/ HostHighlightRemovedWithData
  \/ HostHighlightsCleared
  \/ HostNotice

SpecJump == InitIndex /\ [][NextJump]_vars

\* C37: in every reachable state of the view the current highlight index is
\* at least -1 and less than the number of highlights, so it is -1 whenever
\* there is no highlight.
C37_IndexInRange ==
  /\ 0 - 1 <= currentHighlightIndex
  /\ currentHighlightIndex < Len(highlights)

\* the last of two highlights was the current one and a highlight has just
\* been deleted: the current index is the last one of the list that is left
C37_Witness ==
  /\ HostGets("highlightRemovedWithData")
  /\ Len(highlights) = 1
  /\ currentHighlightIndex = 0
  /\ Len(savedHighlights) = 2

====
